---------------------------- MODULE Spec2Model ----------------------------
(***************************************************************************)
(* A model of rype (SrimantaBarua/rype): the byte accessors of             *)
(* src/types.rs, the cmap resolver of src/cmap.rs, the container loader of *)
(* src/lib.rs, the loca and hmtx views and the glyph decoder of            *)
(* src/glyf.rs.                                                            *)
(*                                                                         *)
(* Conventions                                                             *)
(*   - a byte slice &[u8] is a sequence of 0..255; byte offset off of the  *)
(*     code is element off + 1 of the sequence;                            *)
(*   - a u16 is an integer 0..65535; a u32 is a pair <<hi, lo>> of 16-bit  *)
(*     halves (value hi * 2^16 + lo), so that 32-bit values and their      *)
(*     overflow are represented exactly;                                   *)
(*   - a usize is an integer (a 64-bit target: no usize sum of the code    *)
(*     overflows on the buffers considered);                               *)
(*   - Result<T> is a record: Ok(v) or Err(e); a Rust panic (index out of  *)
(*     bounds, arithmetic overflow with overflow checks on) is Panic.      *)
(***************************************************************************)
EXTENDS Integers, Sequences, FiniteSets, TLC

VARIABLES
    cmap_data,    \* the bytes of the face's 'cmap' table
    maxp_data,    \* the bytes of the face's 'maxp' table
    pc,           \* position of Cmap::load: "start", "loop", "loaded", "failed"
    loop_i,       \* Cmap::load: iterations of the record loop done so far
    enc_rec_off,  \* Cmap::load: enc_rec_off
    subtables,    \* Cmap.subtables (during load: the local subtables)
    active,       \* Cmap.active (during load: the local active)
    last,         \* the last call made on the face and what it returned
    fc_data,      \* FontCollection.data (before construction: the input buffer)
    fc_pc,        \* "new": not constructed, "ready": constructed, "failed"
    face_offsets, \* FontCollection.face_offsets
    fc_last,      \* the last call made on the collection and what it returned
    tv_data,      \* the bytes of a 'loca' or 'hmtx' table
    tv_view,      \* the Loca or Hmtx view loaded over tv_data, if any
    tv_last,      \* the last call made on the view and what it returned
    face_typ,     \* Face.typ: CFF, or TrueType with its loca view and glyf bytes
    tt_glyph,     \* the TTGlyph that get_glyph returned, if any
    gl_pc,        \* "face", "glyph", "path" (render is drawing), "done"
    render,       \* the locals of TTGlyph::render (and of the sizing walk)
    path_iter,    \* the PathIter of the render under way, with its Points
    path_ops,     \* the path operations PathIter::next has returned so far
    points_out,   \* the pairs Points::next has returned so far
    gl_last       \* the last call made on the face or glyph and what it returned

cmapVars == <<cmap_data, maxp_data, pc, loop_i, enc_rec_off, subtables, active, last>>
fcVars == <<fc_data, fc_pc, face_offsets, fc_last>>
viewVars == <<tv_data, tv_view, tv_last>>
glyfVars == <<face_typ, tt_glyph, gl_pc, render, path_iter, path_ops, points_out, gl_last>>
vars == <<cmap_data, maxp_data, pc, loop_i, enc_rec_off, subtables, active, last,
          fc_data, fc_pc, face_offsets, fc_last, tv_data, tv_view, tv_last,
          face_typ, tt_glyph, gl_pc, render, path_iter, path_ops, points_out, gl_last>>

----------------------------------------------------------------------------
(* Bounds of the model                                                     *)

\* codepoints 0..MaxCode are queried (with a few large ones)
MaxCode == 4
\* encoding records in a generated cmap directory
MaxRecords == 3
\* segments in a generated format-4 subtable
MaxSegs == 2
\* groups in a generated format-12 subtable
MaxGroups == 2
\* maxp.numGlyphs of the generated face
NumGlyphsIn == 6
\* numFonts of a generated collection header goes up to MaxFaces + 1, and
\* get_face is called with indices 0..MaxFaces + 1
MaxFaces == 2
\* a generated loca or hmtx table has up to MaxTableLen bytes
MaxTableLen == 10
\* the views are loaded for up to MaxGlyphs glyphs and queried one past it
MaxGlyphs == 3
\* flag runs of a generated glyph body
MaxRuns == 3

----------------------------------------------------------------------------
(* Results                                                                 *)

Ok(v) == [kind |-> "Ok", val |-> v]
Err(e) == [kind |-> "Err", err |-> e]
Panic == [kind |-> "Panic"]
None == [some |-> FALSE]
Some(v) == [some |-> TRUE, val |-> v]
IsOk(r) == r.kind = "Ok"
IsErr(r, e) == r.kind = "Err" /\ r.err = e

----------------------------------------------------------------------------
(* 32-bit unsigned arithmetic on <<hi, lo>> pairs                          *)

U32Of(x) == <<0, x>>
U32Lt(a, b) == a[1] < b[1] \/ (a[1] = b[1] /\ a[2] < b[2])
U32Gt(a, b) == U32Lt(b, a)
\* a - b for a >= b
U32Sub(a, b) ==
    IF a[2] >= b[2] THEN <<a[1] - b[1], a[2] - b[2]>>
    ELSE <<a[1] - b[1] - 1, a[2] + 65536 - b[2]>>
U32Carry(a, b) == (a[2] + b[2]) \div 65536
U32AddOverflows(a, b) == a[1] + b[1] + U32Carry(a, b) >= 65536
U32AddWrap(a, b) == <<(a[1] + b[1] + U32Carry(a, b)) % 65536, (a[2] + b[2]) % 65536>>
\* x & 0xffff
U32Mask16(a) == <<0, a[2]>>
\* x as usize
AsUsize(a) == a[1] * 65536 + a[2]

----------------------------------------------------------------------------
(* src/types.rs: byte accessors                                            *)

\* the slice &data[off..]
SliceFrom(data, off) == SubSeq(data, off + 1, Len(data))

get_u16(data, off) ==
    IF off + 2 > Len(data) THEN Err("Invalid")
    ELSE Ok(data[off + 1] * 256 + data[off + 2])

get_u32(data, off) ==
    IF off + 4 > Len(data) THEN Err("Invalid")
    ELSE Ok(<<data[off + 1] * 256 + data[off + 2], data[off + 3] * 256 + data[off + 4]>>)

get_u8(data, off) ==
    IF off + 1 > Len(data) THEN Err("Invalid") ELSE Ok(data[off + 1])

\* ((data[off] as i16) << 8) | (data[off + 1] as i16): the 16 bits as an i16
get_i16(data, off) ==
    IF off + 2 > Len(data) THEN Err("Invalid")
    ELSE LET u == data[off + 1] * 256 + data[off + 2] IN
         Ok(IF u >= 32768 THEN u - 65536 ELSE u)

\* the unchecked reads panic when an index is outside the slice
InBounds(data, off, width) == off >= 0 /\ off + width <= Len(data)

get_u16_unchecked(data, off) == data[off + 1] * 256 + data[off + 2]

get_u32_unchecked(data, off) ==
    <<data[off + 1] * 256 + data[off + 2], data[off + 3] * 256 + data[off + 4]>>

GlyphID(u) == u


----------------------------------------------------------------------------
(* src/maxp.rs                                                             *)

MaxpLoad(data) == IF Len(data) < 6 THEN Err("Invalid") ELSE Ok(data)

num_glyphs(maxp) == get_u16_unchecked(maxp, 4)

----------------------------------------------------------------------------
(* src/cmap.rs: Cmap::load                                                 *)

\* A Subtable; its data, the slice &data[offset..] of the cmap table, is kept
\* as the offset it starts at
Subtable(platform_id, encoding_id, offset) ==
    [platform_id |-> platform_id, encoding_id |-> encoding_id, offset |-> offset]

SubtableData(data, st) == SliceFrom(data, st.offset)

\* format(): the leading u16 of the subtable's data
SubtableFormat(data, st) == get_u16(SubtableData(data, st), 0)

\* the header checks before the record loop: Ok(num_tables) or Invalid
LoadHeader(data) ==
    IF Len(data) < 4 THEN Err("Invalid")
    ELSE LET num_tables == get_u16_unchecked(data, 2) IN
         IF Len(data) < 4 + num_tables * 8 THEN Err("Invalid")
         ELSE Ok(num_tables)

\* a mutant of SelectActive: a (3,1) record replaces whatever is active
SelectActiveNoLock(act, subtable) ==
    IF subtable.platform_id = 3
    THEN IF subtable.encoding_id = 10 THEN Some(subtable)
         ELSE IF subtable.encoding_id = 1 THEN Some(subtable)
         ELSE act
    ELSE act

\* a mutant of SelectActive: a (3,10) record is taken only when nothing is active
SelectActiveFirstWins(act, subtable) ==
    IF subtable.platform_id = 3
    THEN IF ~act.some /\ subtable.encoding_id = 10 THEN Some(subtable)
         ELSE IF ~act.some /\ subtable.encoding_id = 1 THEN Some(subtable)
         ELSE act
    ELSE act

\* the choice of the active subtable in one iteration of the record loop
SelectActive(act, subtable) ==
    IF subtable.platform_id = 3
    THEN IF subtable.encoding_id = 10 THEN Some(subtable)
         ELSE IF ~act.some /\ subtable.encoding_id = 1 THEN Some(subtable)
         ELSE act
    ELSE act

\* one iteration of the record loop on the locals st = [subtables, active,
\* enc_rec_off]: Err(Invalid), or Ok of the locals after it
LoadRecord(data, st) ==
    LET platform_id == get_u16_unchecked(data, st.enc_rec_off)
        encoding_id == get_u16_unchecked(data, st.enc_rec_off + 2)
        offset == AsUsize(get_u32_unchecked(data, st.enc_rec_off + 4))
        subtable == Subtable(platform_id, encoding_id, offset)
    IN  IF offset >= Len(data) THEN Err("Invalid")
        ELSE Ok([subtables |-> Append(st.subtables, subtable),
                 active |-> SelectActive(st.active, subtable),
                 enc_rec_off |-> st.enc_rec_off + 8])

RECURSIVE LoadLoop(_, _, _)
LoadLoop(data, n, st) ==
    IF n = 0 THEN Ok([subtables |-> st.subtables, active |-> st.active])
    ELSE LET r == LoadRecord(data, st) IN
         IF IsOk(r) THEN LoadLoop(data, n - 1, r.val) ELSE r

\* Cmap::load as a whole: Err(Invalid) or Ok([subtables, active])
CmapLoad(data) ==
    LET h == LoadHeader(data) IN
    IF IsOk(h)
    THEN LoadLoop(data, h.val, [subtables |-> <<>>, active |-> None, enc_rec_off |-> 4])
    ELSE h

----------------------------------------------------------------------------
(* src/cmap.rs: Cmap::get_glyph_id.  oc: the build has overflow checks on  *)
(* (a debug build), so that an overflowing u32 sum panics instead of       *)
(* wrapping.                                                               *)

\* a mutant of Fmt4Direct: the sum is not masked to 16 bits
Fmt4DirectNoMask(codepoint, delta, oc) ==
    IF U32AddOverflows(codepoint, delta) /\ oc THEN Panic
    ELSE Ok(GlyphID(U32AddWrap(codepoint, delta)))

\* idRangeOffset == 0: GlyphID((codepoint + delta) & 0xffff)
Fmt4Direct(codepoint, delta, oc) ==
    IF U32AddOverflows(codepoint, delta) /\ oc THEN Panic
    ELSE Ok(GlyphID(U32Mask16(U32AddWrap(codepoint, delta))))

\* gloff of the idRangeOffset != 0 branch: Panic or Ok(usize)
Fmt4Gloff(segcnt_2, off, codepoint, start, range, oc) ==
    LET diff == U32Sub(codepoint, start)
        dbl == U32AddWrap(diff, diff)
        sum == U32AddWrap(range, dbl)
    IN  IF (U32AddOverflows(diff, diff) \/ U32AddOverflows(range, dbl)) /\ oc THEN Panic
        ELSE Ok(AsUsize(sum) + 16 + segcnt_2 * 3 + off)

\* idRangeOffset != 0: the glyph id array entry plus delta, masked
Fmt4Indirect(d, segcnt_2, off, codepoint, start, delta, range, oc) ==
    LET gloff == Fmt4Gloff(segcnt_2, off, codepoint, start, range, oc) IN
    IF ~IsOk(gloff) THEN gloff
    ELSE LET g == get_u16(d, gloff.val) IN
         IF ~IsOk(g) THEN g
         ELSE IF U32AddOverflows(U32Of(g.val), delta) /\ oc THEN Panic
         ELSE Ok(GlyphID(U32Mask16(U32AddWrap(U32Of(g.val), delta))))

\* a mutant of Fmt4Loop: a segment that starts after the codepoint is skipped
\* and the search goes on, instead of ending it
RECURSIVE Fmt4LoopNoBreak(_, _, _, _, _)
Fmt4LoopNoBreak(d, segcnt_2, off, codepoint, oc) ==
    IF off >= segcnt_2 THEN Ok(GlyphID(U32Of(0)))
    ELSE IF ~InBounds(d, 14 + off, 2) THEN Panic
    ELSE IF U32Gt(codepoint, U32Of(get_u16_unchecked(d, 14 + off)))
         THEN Fmt4LoopNoBreak(d, segcnt_2, off + 2, codepoint, oc)
    ELSE IF ~InBounds(d, 16 + segcnt_2 + off, 2) THEN Panic
    ELSE IF U32Lt(codepoint, U32Of(get_u16_unchecked(d, 16 + segcnt_2 + off)))
         THEN Fmt4LoopNoBreak(d, segcnt_2, off + 2, codepoint, oc)
    ELSE IF ~InBounds(d, 16 + segcnt_2 * 2 + off, 2) THEN Panic
    ELSE IF ~InBounds(d, 16 + segcnt_2 * 3 + off, 2) THEN Panic
    ELSE LET start == U32Of(get_u16_unchecked(d, 16 + segcnt_2 + off))
             delta == U32Of(get_u16_unchecked(d, 16 + segcnt_2 * 2 + off))
             range == U32Of(get_u16_unchecked(d, 16 + segcnt_2 * 3 + off))
         IN  IF range = U32Of(0) THEN Fmt4Direct(codepoint, delta, oc)
             ELSE Fmt4Indirect(d, segcnt_2, off, codepoint, start, delta, range, oc)

\* the segment loop, for off in (0..segcnt_2).step_by(2), from offset off on
RECURSIVE Fmt4Loop(_, _, _, _, _)
Fmt4Loop(d, segcnt_2, off, codepoint, oc) ==
    IF off >= segcnt_2 THEN Ok(GlyphID(U32Of(0)))
    ELSE IF ~InBounds(d, 14 + off, 2) THEN Panic
    ELSE IF U32Gt(codepoint, U32Of(get_u16_unchecked(d, 14 + off)))
         THEN Fmt4Loop(d, segcnt_2, off + 2, codepoint, oc)
    ELSE IF ~InBounds(d, 16 + segcnt_2 + off, 2) THEN Panic
    ELSE IF U32Lt(codepoint, U32Of(get_u16_unchecked(d, 16 + segcnt_2 + off)))
         THEN Ok(GlyphID(U32Of(0)))
    ELSE IF ~InBounds(d, 16 + segcnt_2 * 2 + off, 2) THEN Panic
    ELSE IF ~InBounds(d, 16 + segcnt_2 * 3 + off, 2) THEN Panic
    ELSE LET start == U32Of(get_u16_unchecked(d, 16 + segcnt_2 + off))
             delta == U32Of(get_u16_unchecked(d, 16 + segcnt_2 * 2 + off))
             range == U32Of(get_u16_unchecked(d, 16 + segcnt_2 * 3 + off))
         IN  IF range = U32Of(0) THEN Fmt4Direct(codepoint, delta, oc)
             ELSE Fmt4Indirect(d, segcnt_2, off, codepoint, start, delta, range, oc)

\* the Ok(4) arm
Fmt4Lookup(d, codepoint, oc) ==
    LET s == get_u16(d, 6) IN
    IF ~IsOk(s) THEN s
    ELSE IF Len(d) < 16 + s.val * 4 THEN Err("Invalid")
    ELSE Fmt4Loop(d, s.val, 0, codepoint, oc)

\* a mutant of Fmt12Map: the group's first code is not subtracted
Fmt12MapNoSub(codepoint, start, glyph, oc) ==
    IF U32AddOverflows(codepoint, glyph) /\ oc THEN Panic
    ELSE Ok(GlyphID(U32AddWrap(codepoint, glyph)))

\* GlyphID(codepoint - start + glyph), for start <= codepoint
Fmt12Map(codepoint, start, glyph, oc) ==
    IF U32AddOverflows(U32Sub(codepoint, start), glyph) /\ oc THEN Panic
    ELSE Ok(GlyphID(U32AddWrap(U32Sub(codepoint, start), glyph)))

\* the group loop: n groups left, the next one at offset off
RECURSIVE Fmt12Loop(_, _, _, _, _)
Fmt12Loop(d, n, off, codepoint, oc) ==
    IF n = 0 THEN Ok(GlyphID(U32Of(0)))
    ELSE IF ~InBounds(d, off, 4) THEN Panic
    ELSE IF U32Lt(codepoint, get_u32_unchecked(d, off)) THEN Ok(GlyphID(U32Of(0)))
    ELSE IF ~InBounds(d, off + 4, 4) THEN Panic
    ELSE IF U32Gt(codepoint, get_u32_unchecked(d, off + 4))
         THEN Fmt12Loop(d, n - 1, off + 12, codepoint, oc)
    ELSE IF ~InBounds(d, off + 8, 4) THEN Panic
    ELSE Fmt12Map(codepoint, get_u32_unchecked(d, off),
                  get_u32_unchecked(d, off + 8), oc)

\* the Ok(12) arm
Fmt12Lookup(d, codepoint, oc) ==
    LET g == get_u32(d, 12) IN
    IF ~IsOk(g) THEN g
    ELSE IF Len(d) < 16 + 12 * AsUsize(g.val) THEN Err("Invalid")
    ELSE Fmt12Loop(d, AsUsize(g.val), 16, codepoint, oc)

\* a mutant of CmapGetGlyphId: a format other than 4 and 12 is an error
CmapGetGlyphIdStrict(data, act, codepoint, oc) ==
    IF ~act.some THEN Err("NoCharmap")
    ELSE LET d == SubtableData(data, act.val)
             f == get_u16(d, 0)
         IN  IF ~IsOk(f) THEN Err("Invalid")
             ELSE IF f.val = 4 THEN Fmt4Lookup(d, codepoint, oc)
             ELSE IF f.val = 12 THEN Fmt12Lookup(d, codepoint, oc)
             ELSE Err("NoCharmap")

\* Cmap::get_glyph_id on the cmap table data with active subtable act
CmapGetGlyphId(data, act, codepoint, oc) ==
    IF ~act.some THEN Err("NoCharmap")
    ELSE LET d == SubtableData(data, act.val)
             f == get_u16(d, 0)
         IN  IF ~IsOk(f) THEN Err("Invalid")
             ELSE IF f.val = 4 THEN Fmt4Lookup(d, codepoint, oc)
             ELSE IF f.val = 12 THEN Fmt12Lookup(d, codepoint, oc)
             ELSE Ok(GlyphID(U32Of(0)))

\* src/lib.rs: Face::get_glyph_id and ScaledFace::get_glyph_id hand the call on
FaceGetGlyphId(data, act, codepoint, oc) == CmapGetGlyphId(data, act, codepoint, oc)

----------------------------------------------------------------------------
(* src/types.rs: tags; src/head.rs, src/hhea.rs, src/hmtx.rs, src/loca.rs: *)
(* the load checks of the table views                                      *)

\* ((data[off] as i16) << 8) | (data[off + 1] as i16)
get_i16_unchecked(data, off) ==
    LET u == get_u16_unchecked(data, off) IN IF u >= 32768 THEN u - 65536 ELSE u

\* Tag::from_str on the four ASCII codes of s
Tag_from_str(s) == get_u32(s, 0).val
get_tag(data, off) == get_u32(data, off)

TagHead == Tag_from_str(<<104, 101, 97, 100>>)
TagHhea == Tag_from_str(<<104, 104, 101, 97>>)
TagMaxp == Tag_from_str(<<109, 97, 120, 112>>)
TagHmtx == Tag_from_str(<<104, 109, 116, 120>>)
TagCmap == Tag_from_str(<<99, 109, 97, 112>>)
TagLoca == Tag_from_str(<<108, 111, 99, 97>>)
TagGlyf == Tag_from_str(<<103, 108, 121, 102>>)
TagTtcf == Tag_from_str(<<116, 116, 99, 102>>)
\* Tag(0x00010000) and Tag(0x4F54544F)
TagTrueType == <<1, 0>>
TagOTTO == <<20308, 21583>>

HeadLoad(data) == IF Len(data) < 54 THEN Err("Invalid") ELSE Ok(data)
idx_to_loc_fmt(head) ==
    LET f == get_i16_unchecked(head, 50) IN
    IF f = 0 THEN Ok("Off16") ELSE IF f = 1 THEN Ok("Off32") ELSE Err("Invalid")

HheaLoad(data) == IF Len(data) < 36 THEN Err("Invalid") ELSE Ok(data)
num_of_h_metrics(hhea) == get_u16_unchecked(hhea, 34)

\* a mutant of HmtxLoad: the length of the table is not checked
HmtxLoadNoLen(data, ng, nhm) ==
    IF nhm = 0 THEN Err("Invalid")
    ELSE Ok([num_glyphs |-> ng, num_of_h_metrics |-> nhm])

HmtxLoad(data, ng, nhm) ==
    IF Len(data) < nhm * 2 + ng * 2 \/ nhm = 0 THEN Err("Invalid")
    ELSE Ok([num_glyphs |-> ng, num_of_h_metrics |-> nhm])

LocaLoad(data, ng, fmt) ==
    IF fmt = "Off16" /\ Len(data) < ng * 2 THEN Err("Invalid")
    ELSE IF fmt = "Off32" /\ Len(data) < ng * 4 THEN Err("Invalid")
    ELSE Ok([num_glyphs |-> ng, idx_to_loc_fmt |-> fmt])

\* a mutant of LocaGetOffset: the short format's entry is not doubled
LocaGetOffsetNoDouble(loca, data, id) ==
    IF AsUsize(id) >= loca.num_glyphs THEN Err("GlyphIDOutOfBounds")
    ELSE IF loca.idx_to_loc_fmt = "Off16"
    THEN IF InBounds(data, AsUsize(id) * 2, 2)
         THEN Ok(get_u16_unchecked(data, AsUsize(id) * 2))
         ELSE Panic
    ELSE IF InBounds(data, AsUsize(id) * 4, 4)
         THEN Ok(AsUsize(get_u32_unchecked(data, AsUsize(id) * 4)))
         ELSE Panic

\* Loca::get_offset on the view loca over data
LocaGetOffset(loca, data, id) ==
    IF AsUsize(id) >= loca.num_glyphs THEN Err("GlyphIDOutOfBounds")
    ELSE IF loca.idx_to_loc_fmt = "Off16"
    THEN IF InBounds(data, AsUsize(id) * 2, 2)
         THEN Ok(get_u16_unchecked(data, AsUsize(id) * 2) * 2)
         ELSE Panic
    ELSE IF InBounds(data, AsUsize(id) * 4, 4)
         THEN Ok(AsUsize(get_u32_unchecked(data, AsUsize(id) * 4)))
         ELSE Panic

\* Hmtx::get_metrics on the view hmtx over data
HmtxGetMetrics(hmtx, data, glyph_id) ==
    IF AsUsize(glyph_id) >= hmtx.num_glyphs THEN Err("GlyphIDOutOfBounds")
    ELSE LET glyph_off == AsUsize(glyph_id) * 2 IN
         IF AsUsize(glyph_id) < hmtx.num_of_h_metrics
         THEN IF InBounds(data, glyph_off, 4)
              THEN Ok(<<get_u16_unchecked(data, glyph_off),
                        get_i16_unchecked(data, glyph_off + 2)>>)
              ELSE Panic
         ELSE IF InBounds(data, (hmtx.num_of_h_metrics - 1) * 2, 2)
                 /\ InBounds(data, glyph_off + 2, 2)
              THEN Ok(<<get_u16_unchecked(data, (hmtx.num_of_h_metrics - 1) * 2),
                        get_i16_unchecked(data, glyph_off + 2)>>)
              ELSE Panic

----------------------------------------------------------------------------
(* src/lib.rs: Face::load.  The tag map holds, for each tag, the offset    *)
(* and length of its slice &data[table_off..table_off + table_len].        *)

EmptyTables == [t \in {} |-> <<0, 0>>]
TablesInsert(tables, tag, slice) ==
    [t \in DOMAIN tables \cup {tag} |-> IF t = tag THEN slice ELSE tables[t]]
TableData(data, slice) == SubSeq(data, slice[1] + 1, slice[1] + slice[2])

\* the table record loop: n records left, the next one at record_off
RECURSIVE TablesLoop(_, _, _, _)
TablesLoop(data, n, record_off, tables) ==
    IF n = 0 THEN Ok(tables)
    ELSE LET tag == get_tag(data, record_off)
             table_off == get_u32(data, record_off + 8)
             table_len == get_u32(data, record_off + 12)
         IN  IF ~IsOk(tag) THEN tag
             ELSE IF ~IsOk(table_off) THEN table_off
             ELSE IF ~IsOk(table_len) THEN table_len
             ELSE IF AsUsize(table_off.val) + AsUsize(table_len.val) > Len(data)
                  THEN Err("Invalid")
             ELSE TablesLoop(data, n - 1, record_off + 16,
                             TablesInsert(tables, tag.val,
                                          <<AsUsize(table_off.val), AsUsize(table_len.val)>>))

\* tables.get(tag).ok_or(Invalid): the slice's bytes
TableGet(data, tables, tag) ==
    IF tag \in DOMAIN tables THEN Ok(TableData(data, tables[tag])) ELSE Err("Invalid")

\* the outline variant, from the sfnt version
FaceTyp(data, tables, sfnt_version, ng, fmt) ==
    IF sfnt_version = TagTrueType
    THEN LET loca == TableGet(data, tables, TagLoca)
             glyf == TableGet(data, tables, TagGlyf)
         IN  IF ~IsOk(loca) THEN loca
             ELSE IF ~IsOk(LocaLoad(loca.val, ng, fmt)) THEN Err("Invalid")
             ELSE IF ~IsOk(glyf) THEN glyf
             ELSE Ok([typ |-> "TrueType", loca |-> LocaLoad(loca.val, ng, fmt).val])
    ELSE IF sfnt_version = TagOTTO THEN Ok([typ |-> "CFF"])
    ELSE Err("Invalid")

\* Face::load after the record loop: the required tables and the variant
FaceOfTables(data, sfnt_version, tables) ==
    LET head == TableGet(data, tables, TagHead)
        hhea == TableGet(data, tables, TagHhea)
        maxp == TableGet(data, tables, TagMaxp)
        hmtx == TableGet(data, tables, TagHmtx)
        cmap == TableGet(data, tables, TagCmap)
    IN  IF ~IsOk(head) \/ ~IsOk(hhea) \/ ~IsOk(maxp) \/ ~IsOk(hmtx) \/ ~IsOk(cmap)
        THEN Err("Invalid")
        ELSE IF ~IsOk(HeadLoad(head.val)) \/ ~IsOk(HheaLoad(hhea.val))
                \/ ~IsOk(MaxpLoad(maxp.val))
        THEN Err("Invalid")
        ELSE LET ng == num_glyphs(maxp.val)
                 nhm == num_of_h_metrics(hhea.val)
                 cm == CmapLoad(cmap.val)
                 fmt == idx_to_loc_fmt(head.val)
             IN  IF ~IsOk(HmtxLoad(hmtx.val, ng, nhm)) THEN Err("Invalid")
                 ELSE IF ~IsOk(cm) THEN cm
                 ELSE IF ~IsOk(fmt) THEN fmt
                 ELSE LET typ == FaceTyp(data, tables, sfnt_version, ng, fmt.val) IN
                      IF ~IsOk(typ) THEN typ
                      ELSE Ok([tables |-> tables, cmap |-> cm.val, typ |-> typ.val])

\* Face::load(data, offset)
FaceLoad(data, offset) ==
    LET sfnt_version == get_tag(data, offset)
        num_tables == get_u16(data, offset + 4)
    IN  IF ~IsOk(sfnt_version) THEN sfnt_version
        ELSE IF ~IsOk(num_tables) THEN num_tables
        ELSE LET tables == TablesLoop(data, num_tables.val, offset + 12, EmptyTables) IN
             IF ~IsOk(tables) THEN tables
             ELSE FaceOfTables(data, sfnt_version.val, tables.val)

----------------------------------------------------------------------------
(* src/lib.rs: FontCollection                                              *)

\* the offsets loop of from_data: n offsets left, the next one read at off
RECURSIVE FaceOffsetsLoop(_, _, _, _)
FaceOffsetsLoop(data, n, off, offsets) ==
    IF n = 0 THEN Ok(offsets)
    ELSE LET face_off == get_u32(data, off) IN
         IF ~IsOk(face_off) THEN face_off
         ELSE FaceOffsetsLoop(data, n - 1, off + 12, Append(offsets, AsUsize(face_off.val)))

\* FontCollection::from_data: Err, or Ok(face_offsets)
FromData(data) ==
    LET tag == get_tag(data, 0) IN
    IF ~IsOk(tag) THEN tag
    ELSE IF tag.val = TagTtcf
    THEN LET num_fonts == get_u32(data, 8) IN
         IF ~IsOk(num_fonts) THEN num_fonts
         ELSE FaceOffsetsLoop(data, AsUsize(num_fonts.val), 12, <<>>)
    ELSE Ok(<<0>>)

\* a mutant of FcGetFace: the last face is out of bounds too
FcGetFaceOffByOne(data, offsets, idx) ==
    IF idx + 1 >= Len(offsets) THEN Err("FaceIndexOutOfBounds")
    ELSE FaceLoad(data, offsets[idx + 1])

\* FontCollection::get_face
FcGetFace(data, offsets, idx) ==
    IF idx >= Len(offsets) THEN Err("FaceIndexOutOfBounds")
    ELSE FaceLoad(data, offsets[idx + 1])

\* FontCollection::num_faces
FcNumFaces(offsets) == Len(offsets)

----------------------------------------------------------------------------
(* src/glyf.rs and Face::get_glyph.  An f32 is modelled by the integer     *)
(* that is four times its value: the scales considered are multiples of    *)
(* 1/2 and the coordinates are integers, so every value the code computes  *)
(* is a multiple of 1/4 (an affine coefficient, a transformed coordinate,  *)
(* a midpoint) that an f32 holds exactly.  Point.x and Point.y are kept in *)
(* these quarter units, except Points.last_point, kept in font units.      *)

\* 2^64 as far as the model is concerned: a usize that wrapped below zero
\* exceeds every count of bytes or points the model holds
Huge == 1073741824
\* n as usize, for an isize (or a wrapped difference of usizes) n
WrapUsize(n) == IF n < 0 THEN Huge + n ELSE n
\* n as i16, for the result n of an i16 operation that wrapped
WrapI16(n) == ((n + 32768) % 65536) - 32768
FitsI16(n) == n >= -32768 /\ n <= 32767

\* bit k of byte b
Bit(b, k) == (b \div (2 ^ k)) % 2 = 1

\* a mutant of GlyfGlyph: a negative num_contours is not told apart
GlyfGlyphAllSimple(glyf, offset) ==
    IF offset + 10 > Len(glyf) THEN Err("Invalid")
    ELSE Ok([kind |-> "Simple",
             num_contours |-> get_u16_unchecked(glyf, offset),
             xmin |-> get_i16_unchecked(glyf, offset + 2),
             ymin |-> get_i16_unchecked(glyf, offset + 4),
             xmax |-> get_i16_unchecked(glyf, offset + 6),
             ymax |-> get_i16_unchecked(glyf, offset + 8),
             data |-> SliceFrom(glyf, offset + 10)])

\* Glyf::glyph(offset)
GlyfGlyph(glyf, offset) ==
    IF offset + 10 > Len(glyf) THEN Err("Invalid")
    ELSE LET num_contours == get_i16_unchecked(glyf, offset) IN
         IF num_contours < 0
         THEN Ok([kind |-> "Composite", data |-> SliceFrom(glyf, offset)])
         ELSE Ok([kind |-> "Simple",
                  num_contours |-> num_contours,
                  xmin |-> get_i16_unchecked(glyf, offset + 2),
                  ymin |-> get_i16_unchecked(glyf, offset + 4),
                  xmax |-> get_i16_unchecked(glyf, offset + 6),
                  ymax |-> get_i16_unchecked(glyf, offset + 8),
                  data |-> SliceFrom(glyf, offset + 10)])

\* Face::get_glyph(id) (ScaledFace::get_glyph): the TTGlyph of the outline
FaceGetGlyph(typ, id) ==
    IF typ.typ = "TrueType"
    THEN LET off == LocaGetOffset(typ.loca, typ.loca_data, id) IN
         IF IsOk(off) THEN GlyfGlyph(typ.glyf, off.val) ELSE off
    ELSE Err("Unimplemented")

\* Affine::translation, Affine::scaled, Affine::apply_point (coefficients in
\* quarter units; p in font units, the result in quarter units)
AffineTranslation(x, y) == [a0 |-> 4, b0 |-> 0, c0 |-> x, a1 |-> 0, b1 |-> 4, c1 |-> y]
AffineScaled(a, x, y) ==
    [a0 |-> (a.a0 * x) \div 4, b0 |-> (a.b0 * x) \div 4, c0 |-> (a.c0 * x) \div 4,
     a1 |-> (a.a1 * y) \div 4, b1 |-> (a.b1 * y) \div 4, c1 |-> (a.c1 * y) \div 4]
ApplyPoint(a, p) ==
    <<a.a0 * p[1] + a.b0 * p[2] + a.c0, a.a1 * p[1] + a.b1 * p[2] + a.c1>>

\* Point::linterp(0.5, p0, p1) of rster
Linterp(p0, p1) == <<(p0[1] + p1[1]) \div 2, (p0[2] + p1[2]) \div 2>>

\* what an iterator's next() hands back: its item and its state afterwards
\* (pulled: the pairs Points::next returned to PathIter::next during the call)
Ret(out, st) == [kind |-> "Ret", out |-> out, st |-> st]
RetPulled(out, st, pulled) == [kind |-> "Ret", out |-> out, st |-> st, pulled |-> pulled]

\* Points::next, lines 67-76: the flag of the point
PointsFlag(pts, data) ==
    IF pts.flags_remaining > 0 THEN Ok([pts EXCEPT !.flags_remaining = @ - 1])
    ELSE IF ~InBounds(data, pts.flag_off, 1) THEN Panic
    ELSE LET flag == data[pts.flag_off + 1] IN
         IF Bit(flag, 3)
         THEN IF ~InBounds(data, pts.flag_off + 1, 1) THEN Panic
              ELSE Ok([pts EXCEPT !.flag = flag,
                                  !.flags_remaining = data[pts.flag_off + 2],
                                  !.flag_off = @ + 2])
         ELSE Ok([pts EXCEPT !.flag = flag, !.flag_off = @ + 1])

\* Points::next, lines 77-91: flag & 0x12 selects how x moves
PointsX(pts, data) ==
    IF ~Bit(pts.flag, 1) /\ ~Bit(pts.flag, 4)
    THEN LET r == get_i16(data, pts.x_off) IN
         IF IsOk(r) THEN Ok([pts EXCEPT !.last_point[1] = @ + r.val, !.x_off = @ + 2])
         ELSE r
    ELSE IF Bit(pts.flag, 1) /\ ~Bit(pts.flag, 4)
    THEN LET r == get_u8(data, pts.x_off) IN
         IF IsOk(r) THEN Ok([pts EXCEPT !.last_point[1] = @ - r.val, !.x_off = @ + 1])
         ELSE r
    ELSE IF Bit(pts.flag, 1) /\ Bit(pts.flag, 4)
    THEN LET r == get_u8(data, pts.x_off) IN
         IF IsOk(r) THEN Ok([pts EXCEPT !.last_point[1] = @ + r.val, !.x_off = @ + 1])
         ELSE r
    ELSE Ok(pts)

\* Points::next, lines 92-106: flag & 0x24 selects how y moves
PointsY(pts, data) ==
    IF ~Bit(pts.flag, 2) /\ ~Bit(pts.flag, 5)
    THEN LET r == get_i16(data, pts.y_off) IN
         IF IsOk(r) THEN Ok([pts EXCEPT !.last_point[2] = @ + r.val, !.y_off = @ + 2])
         ELSE r
    ELSE IF Bit(pts.flag, 2) /\ ~Bit(pts.flag, 5)
    THEN LET r == get_u8(data, pts.y_off) IN
         IF IsOk(r) THEN Ok([pts EXCEPT !.last_point[2] = @ - r.val, !.y_off = @ + 1])
         ELSE r
    ELSE IF Bit(pts.flag, 2) /\ Bit(pts.flag, 5)
    THEN LET r == get_u8(data, pts.y_off) IN
         IF IsOk(r) THEN Ok([pts EXCEPT !.last_point[2] = @ + r.val, !.y_off = @ + 1])
         ELSE r
    ELSE Ok(pts)

\* Points::next: Panic, or the item (None, or Some(<<on_curve, point>>)) and
\* the iterator's state after the call.  A coordinate that cannot be read
\* ends the call with None (.ok()?), the fields written so far kept.
PointsNext(pts, data) ==
    IF pts.points_remaining = 0 THEN Ret(None, pts)
    ELSE LET f == PointsFlag(pts, data) IN
         IF ~IsOk(f) THEN Panic
         ELSE LET x == PointsX(f.val, data) IN
              IF ~IsOk(x) THEN Ret(None, f.val)
              ELSE LET y == PointsY(x.val, data) IN
                   IF ~IsOk(y) THEN Ret(None, x.val)
                   ELSE LET q == [y.val EXCEPT !.points_remaining = @ - 1] IN
                        Ret(Some(<<Bit(q.flag, 0), ApplyPoint(q.affine, q.last_point)>>), q)

\* ContourSizes::next
ContourSizesNext(cs) ==
    IF Len(cs.data) = 0 THEN Ret(None, cs)
    ELSE LET cur == get_u16_unchecked(cs.data, 0)
             diff == cur - cs.last
         IN  Ret(Some(WrapUsize(diff)), [last |-> cur, data |-> SliceFrom(cs.data, 2)])

\* rster::PathOp
Move(p) == [op |-> "Move", p |-> p]
Line(p) == [op |-> "Line", p |-> p]
QuadBez(c, p) == [op |-> "QuadBez", c |-> c, p |-> p]

\* a mutant of PathIterStart: an off-curve first point starts the contour
\* like an on-curve one
PathIterStartAnyMove(it, data, oc) ==
    LET cs == ContourSizesNext(it.contour_sizes) IN
    IF ~cs.out.some THEN RetPulled(None, it, <<>>)
    ELSE IF cs.out.val = 0 /\ oc THEN Panic
    ELSE LET it1 == [it EXCEPT !.cur_contour_size = WrapUsize(cs.out.val - 1),
                               !.contour_sizes = cs.st]
             r == PointsNext(it1.points, data)
         IN  IF r.kind = "Panic" THEN Panic
             ELSE IF r.out.some
             THEN RetPulled(Some(Move(r.out.val[2])),
                            [it1 EXCEPT !.points = r.st,
                                        !.contour_start = Some(r.out.val[2])],
                            <<r.out.val>>)
             ELSE RetPulled(None, [it1 EXCEPT !.points = r.st], <<>>)

\* PathIter::next, lines 152-159: the start of a contour
PathIterStart(it, data, oc) ==
    LET cs == ContourSizesNext(it.contour_sizes) IN
    IF ~cs.out.some THEN RetPulled(None, it, <<>>)
    ELSE IF cs.out.val = 0 /\ oc THEN Panic
    ELSE LET it1 == [it EXCEPT !.cur_contour_size = WrapUsize(cs.out.val - 1),
                               !.contour_sizes = cs.st]
             r == PointsNext(it1.points, data)
         IN  IF r.kind = "Panic" THEN Panic
             ELSE IF r.out.some
             THEN IF r.out.val[1]
                  THEN RetPulled(Some(Move(r.out.val[2])),
                                 [it1 EXCEPT !.points = r.st,
                                             !.contour_start = Some(r.out.val[2])],
                                 <<r.out.val>>)
                  ELSE RetPulled(None, [it1 EXCEPT !.points = r.st], <<r.out.val>>)
             ELSE RetPulled(None, [it1 EXCEPT !.points = r.st], <<>>)

\* PathIter::next, lines 190-206 and 169-177: the point after an off-curve
\* point p0 (pulled0: what this call pulled before)
PathIterAfterOff(it, data, p0, pulled0) ==
    LET r == PointsNext(it.points, data) IN
    IF r.kind = "Panic" THEN Panic
    ELSE IF ~r.out.some THEN RetPulled(None, [it EXCEPT !.points = r.st], pulled0)
    ELSE LET it1 == [it EXCEPT !.points = r.st, !.cur_contour_size = @ - 1]
             p1 == r.out.val[2]
         IN  IF r.out.val[1]
             THEN RetPulled(Some(QuadBez(p0, p1)),
                            [it1 EXCEPT !.last_offcurve = None],
                            Append(pulled0, r.out.val))
             ELSE RetPulled(Some(QuadBez(p0, Linterp(p0, p1))),
                            [it1 EXCEPT !.last_offcurve = Some(p1)],
                            Append(pulled0, r.out.val))

\* PathIter::next: Panic, or the item (None or Some(PathOp)), the iterator's
\* state after the call and the pairs it pulled from Points.  oc: the build
\* checks arithmetic overflow.
PathIterNext(it, data, oc) ==
    IF ~it.contour_start.some THEN PathIterStart(it, data, oc)
    ELSE IF ~it.last_offcurve.some
    THEN IF it.cur_contour_size > 0
         THEN LET r == PointsNext(it.points, data) IN
              IF r.kind = "Panic" THEN Panic
              ELSE IF ~r.out.some THEN RetPulled(None, [it EXCEPT !.points = r.st], <<>>)
              ELSE LET it1 == [it EXCEPT !.points = r.st, !.cur_contour_size = @ - 1]
                       p0 == r.out.val[2]
                   IN  IF r.out.val[1] THEN RetPulled(Some(Line(p0)), it1, <<r.out.val>>)
                       ELSE IF it1.cur_contour_size > 0
                       THEN PathIterAfterOff(it1, data, p0, <<r.out.val>>)
                       ELSE RetPulled(Some(QuadBez(p0, it1.contour_start.val)),
                                      [it1 EXCEPT !.contour_start = None],
                                      <<r.out.val>>)
         ELSE RetPulled(Some(Line(it.contour_start.val)),
                        [it EXCEPT !.contour_start = None], <<>>)
    ELSE IF it.cur_contour_size > 0
         THEN PathIterAfterOff(it, data, it.last_offcurve.val, <<>>)
         ELSE RetPulled(Some(QuadBez(it.last_offcurve.val, it.contour_start.val)),
                        [it EXCEPT !.last_offcurve = None, !.contour_start = None],
                        <<>>)

\* the loop of get_ttglyph_offsets; points_remaining -= repeat_count panics
\* when it underflows in a build that checks overflow and wraps otherwise
RECURSIVE OffsetsLoop(_, _, _, _, _, _)
OffsetsLoop(data, points_remaining, flags_off, flags_size, x_size, oc) ==
    IF points_remaining = 0
    THEN Ok(<<flags_off + flags_size, flags_off + flags_size + x_size>>)
    ELSE LET flag == get_u8(data, flags_off + flags_size) IN
         IF ~IsOk(flag) THEN flag
         ELSE LET rep == IF Bit(flag.val, 3)
                         THEN get_u8(data, flags_off + flags_size + 1)
                         ELSE Ok(0)
              IN  IF ~IsOk(rep) THEN rep
                  ELSE LET repeat_count == rep.val + 1
                           fs == flags_size + (IF Bit(flag.val, 3) THEN 2 ELSE 1)
                           xs == IF Bit(flag.val, 1) THEN x_size + repeat_count
                                 ELSE IF Bit(flag.val, 4) THEN x_size
                                 ELSE x_size + repeat_count * 2
                       IN  IF repeat_count > points_remaining /\ oc THEN Panic
                           ELSE OffsetsLoop(data,
                                            WrapUsize(points_remaining - repeat_count),
                                            flags_off, fs, xs, oc)

get_ttglyph_offsets(data, points_remaining, flags_off, oc) ==
    OffsetsLoop(data, points_remaining, flags_off, 0, 0, oc)

\* f32::ceil of a value in quarter units, then `as usize` (negative values
\* saturate to 0)
CeilAsUsize(q) == IF q <= 0 THEN 0 ELSE (q + 3) \div 4

\* TTGlyph::render up to the call of draw_path: the bitmap's size and the path
\* iterator (scale_x, scale_y in quarter units), or the error, or Panic
RenderSetup(g, scale_x, scale_y, oc) ==
    IF g.kind = "Composite" THEN Err("Unimplemented")
    ELSE LET num_contours == g.num_contours IN
    IF num_contours = 0 THEN Panic
    ELSE LET np == get_u16(g.data, (num_contours - 1) * 2) IN
    IF ~IsOk(np) THEN np
    ELSE LET ni == get_u16(g.data, num_contours * 2) IN
    IF ~IsOk(ni) THEN ni
    ELSE LET num_points == np.val + 1
             flag_off == num_contours * 2 + 2 + ni.val
             offs == get_ttglyph_offsets(g.data, num_points, flag_off, oc)
         IN
    IF ~IsOk(offs) THEN offs
    ELSE IF oc /\ (~FitsI16(g.xmax - g.xmin) \/ ~FitsI16(g.ymax - g.ymin)
                   \/ ~FitsI16(-g.xmin) \/ ~FitsI16(-g.ymax))
    THEN Panic
    ELSE LET width == CeilAsUsize(WrapI16(g.xmax - g.xmin) * scale_x) + 2
             height == CeilAsUsize(WrapI16(g.ymax - g.ymin) * scale_y) + 2
             affine == AffineScaled(AffineTranslation(4 * WrapI16(-g.xmin),
                                                      4 * WrapI16(-g.ymax)),
                                    scale_x, -scale_y)
             points == [points_remaining |-> num_points, flags_remaining |-> 0,
                        flag |-> 0, last_point |-> <<0, 0>>,
                        flag_off |-> flag_off, x_off |-> offs.val[1],
                        y_off |-> offs.val[2], affine |-> affine]
         IN  Ok([width |-> width, height |-> height,
                 path_iter |-> [contour_start |-> None, last_offcurve |-> None,
                                points |-> points, cur_contour_size |-> 0,
                                contour_sizes |->
                                    [last |-> -1,
                                     data |-> SubSeq(g.data, 1, num_contours * 2)]]])

----------------------------------------------------------------------------
(* Input buffers.  These definitions build the byte contents the model is  *)
(* run on; they lay fields out as the OpenType tables do and model no code *)
(* of the library.                                                         *)

U16Bytes(x) == <<x \div 256, x % 256>>
U32Bytes(u) == U16Bytes(u[1]) \o U16Bytes(u[2])

RECURSIVE Concat(_)
Concat(seqs) == IF seqs = <<>> THEN <<>> ELSE Head(seqs) \o Concat(Tail(seqs))

\* the sequences over S of length 0..n
SeqsUpTo(S, n) == UNION {[1..k -> S] : k \in 0..n}

\* s without its last cut bytes
CutTail(s, cut) == SubSeq(s, 1, IF Len(s) > cut THEN Len(s) - cut ELSE 0)

\* the codepoints looked up
Codepoints ==
    {U32Of(c) : c \in 0..MaxCode} \cup {U32Of(65535), <<1, 0>>, <<1, 1>>, <<65535, 65535>>}

\* a format-4 segment: first and last code, idDelta, and whether it maps
\* through the glyph id array (idRangeOffset pointing at the array's start)
SegChoices ==
    {[startc |-> 0, endc |-> 1, delta |-> 1, arr |-> a] : a \in BOOLEAN}
    \cup {[startc |-> 2, endc |-> 3, delta |-> 65535, arr |-> a] : a \in BOOLEAN}
    \cup {[startc |-> 65535, endc |-> 65535, delta |-> 1, arr |-> a] : a \in BOOLEAN}
    \cup {[startc |-> 0, endc |-> 65535, delta |-> 65535, arr |-> a] : a \in BOOLEAN}

\* the glyph id array that follows the segment arrays
GlyphIdArray == <<0, 5, 65535>>

\* a format-4 subtable with segments segs, segCountX2 written as
\* 2 * Len(segs) + skew, and its last cut bytes missing
Fmt4Body(segs, skew, cut) ==
    LET n == Len(segs)
        rangeOf(i) == IF segs[i].arr THEN 2 * n - 2 * (i - 1) ELSE 0
    IN  CutTail(
            U16Bytes(4) \o U16Bytes(0) \o U16Bytes(0) \o U16Bytes(2 * n + skew)
            \o U16Bytes(0) \o U16Bytes(0) \o U16Bytes(0)
            \o Concat([i \in 1..n |-> U16Bytes(segs[i].endc)])
            \o U16Bytes(0)
            \o Concat([i \in 1..n |-> U16Bytes(segs[i].startc)])
            \o Concat([i \in 1..n |-> U16Bytes(segs[i].delta)])
            \o Concat([i \in 1..n |-> U16Bytes(rangeOf(i))])
            \o Concat([i \in 1..Len(GlyphIdArray) |-> U16Bytes(GlyphIdArray[i])]),
            cut)

\* whole subtables; subtables cut inside the segment arrays; an odd segCountX2,
\* whole and cut to exactly 16 + 4 * segCountX2 bytes
Fmt4Variants == {<<0, 0>>, <<0, 7>>, <<-1, 0>>, <<-1, 10>>}

Fmt4Bodies ==
    {Fmt4Body(segs, v[1], v[2]) :
        <<segs, v>> \in {x \in SeqsUpTo(SegChoices, MaxSegs) \X Fmt4Variants :
                            Len(x[1]) > 0 \/ x[2][1] = 0}}

\* a format-12 group (startCharCode, endCharCode, startGlyphId)
GroupChoices ==
    { <<U32Of(1), U32Of(2), U32Of(5)>>,
      <<U32Of(3), U32Of(4), <<65535, 65535>> >>,
      << <<1, 0>>, <<1, 1>>, U32Of(9)>>,
      <<U32Of(0), <<65535, 65535>>, U32Of(1)>> }

\* a format-12 subtable with groups groups, numGroups written as
\* Len(groups) + skew (a u32 pair), and its last cut bytes missing
Fmt12Body(groups, skew, cut) ==
    CutTail(
        U16Bytes(12) \o U16Bytes(0) \o U32Bytes(U32Of(0)) \o U32Bytes(U32Of(0))
        \o U32Bytes(U32AddWrap(U32Of(Len(groups)), skew))
        \o Concat([i \in 1..Len(groups) |->
                     U32Bytes(groups[i][1]) \o U32Bytes(groups[i][2])
                     \o U32Bytes(groups[i][3])]),
        cut)

Fmt12Variants == {<<U32Of(0), 0>>, <<U32Of(1), 0>>, <<<<1, 0>>, 0>>, <<U32Of(0), 1>>}

Fmt12Bodies ==
    {Fmt12Body(groups, v[1], v[2]) :
        <<groups, v>> \in SeqsUpTo(GroupChoices, MaxGroups) \X Fmt12Variants}

\* a cmap table: the directory of the records recs = <<platform, encoding>>,
\* numTables written as Len(recs) + skew, record k pointing at bodies[k]
CmapTable(recs, bodies, skew) ==
    LET n == Len(recs)
        bodyOff(k) == 4 + 8 * n + Len(Concat(SubSeq(bodies, 1, k - 1)))
    IN  U16Bytes(0) \o U16Bytes(n + skew)
        \o Concat([k \in 1..n |->
                     U16Bytes(recs[k][1]) \o U16Bytes(recs[k][2])
                     \o U32Bytes(U32Of(bodyOff(k)))])
        \o Concat(bodies)

\* the (platform, encoding) pairs of the generated directories
PlatEnc == {<<3, 10>>, <<3, 1>>, <<0, 3>>}

\* the two-byte subtable the k-th record of a generated directory points at:
\* formats 0, 6, 12, ...
StubBody(k) == U16Bytes(6 * (k - 1))

\* directories of up to MaxRecords records: whole, claiming one record more
\* than they hold, with the last body missing (so that the last offset is the
\* table's length), and cut inside the header
DirInputs ==
    LET whole(recs, skew) ==
            CmapTable(recs, [k \in 1..Len(recs) |-> StubBody(k)], skew)
    IN  {whole(recs, 0) : recs \in SeqsUpTo(PlatEnc, MaxRecords)}
        \cup {whole(recs, 1) : recs \in SeqsUpTo(PlatEnc, MaxRecords)}
        \cup {CutTail(whole(recs, 0), 2) : recs \in SeqsUpTo(PlatEnc, MaxRecords)}
        \cup {<<>>, <<0, 0, 0>>}

\* one record pointing at a format-4 or a format-12 subtable, or at a single byte
BodyInputs ==
    {CmapTable(<<pe>>, <<b>>, 0) : <<pe, b>> \in {<<3, 1>>, <<0, 3>>} \X Fmt4Bodies}
    \cup {CmapTable(<<pe>>, <<b>>, 0) : <<pe, b>> \in {<<3, 10>>} \X Fmt12Bodies}
    \cup {CmapTable(<<<<3, 1>>>>, <<<<0>>>>, 0)}

CmapInputs == DirInputs \cup BodyInputs

\* a maxp table: version 0.5 and numGlyphs
MaxpTable(n) == U32Bytes(<<0, 20480>>) \o U16Bytes(n)

\* the bytes of the tables of a generated font
Zeros(n) == [i \in 1..n |-> 0]
HeadTable(locfmt) == Zeros(50) \o U16Bytes(locfmt) \o Zeros(2)
HheaTable(nhm) == Zeros(34) \o U16Bytes(nhm)

\* an sfnt font placed at offset base of its file: the offset table, one record
\* per table of tabs = <<tag, bytes>> (the record of table over, if any, with
\* a length one byte too long for the file when the font ends it), the tables
FontBytes(base, version, tabs, over) ==
    LET n == Len(tabs)
        total == base + 12 + 16 * n + Len(Concat([k \in 1..n |-> tabs[k][2]]))
        tabOff(k) == base + 12 + 16 * n + Len(Concat([j \in 1..(k - 1) |-> tabs[j][2]]))
        tabLen(k) == IF k = over THEN total - tabOff(k) + 1 ELSE Len(tabs[k][2])
    IN  U32Bytes(version) \o U16Bytes(n) \o Zeros(6)
        \o Concat([k \in 1..n |->
                     U32Bytes(tabs[k][1]) \o Zeros(4)
                     \o U32Bytes(U32Of(tabOff(k))) \o U32Bytes(U32Of(tabLen(k)))])
        \o Concat([k \in 1..n |-> tabs[k][2]])

\* the tables of a font of two glyphs; defect names what is wrong with them
FontTables(defect) ==
    << <<TagHead, IF defect = "shortHead" THEN Zeros(53)
                  ELSE HeadTable(IF defect = "badLocFmt" THEN 2 ELSE 1)>>,
       <<TagHhea, HheaTable(IF defect = "noMetrics" THEN 0 ELSE 1)>>,
       <<TagMaxp, MaxpTable(2)>>,
       <<TagHmtx, Zeros(IF defect = "shortHmtx" THEN 5 ELSE 6)>>,
       <<TagCmap, IF defect = "badCmap" THEN <<0, 0, 0, 1>>
                  ELSE CmapTable(<< <<3, 1>> >>, <<StubBody(2)>>, 0)>>,
       <<TagLoca, Zeros(IF defect = "shortLoca" THEN 7 ELSE 8)>>,
       <<TagGlyf, Zeros(2)>> >>

Defects == {"none", "shortHead", "badLocFmt", "noMetrics", "shortHmtx", "badCmap",
            "shortLoca"}

\* s without its element at index k (k = 0: s itself)
Without(s, k) == [i \in 1..(Len(s) - (IF k = 0 THEN 0 ELSE 1)) |->
                    IF k = 0 \/ i < k THEN s[i] ELSE s[i + 1]]

\* single fonts: each version, each defect, each table left out, a record that
\* overruns the file, a file that ends early
FontInputs ==
    {FontBytes(0, v, Without(FontTables(d), drop), 0) :
        <<v, d, drop>> \in {TagTrueType, TagOTTO, <<0, 2>>} \X Defects \X (0..7)}
    \cup {FontBytes(0, v, FontTables("none"), over) :
            <<v, over>> \in {TagTrueType, TagOTTO} \X {1, 7}}
    \cup {CutTail(FontBytes(0, TagTrueType, FontTables("none"), 0), cut) :
            cut \in {1, 3, 200}}
    \cup {<<>>, <<0, 1, 0>>}

\* a collection: the 'ttcf' header with numFonts as written, the u32 slots
\* from offset 12 on, then a TrueType and a CFF font; slot i holds the offset
\* of the one or of the other
TtcSlots == 3 * MaxFaces - 2
TtcBytes(num_fonts, pick) ==
    LET baseA == 12 + 4 * TtcSlots
        fontA == FontBytes(baseA, TagTrueType, FontTables("none"), 0)
        baseB == baseA + Len(fontA)
        fontB == FontBytes(baseB, TagOTTO, Without(Without(FontTables("none"), 7), 6), 0)
    IN  U32Bytes(TagTtcf) \o U32Bytes(<<1, 0>>) \o U32Bytes(num_fonts)
        \o Concat([i \in 1..TtcSlots |-> U32Bytes(U32Of(IF pick[i] THEN baseA ELSE baseB))])
        \o fontA \o fontB

TtcInputs ==
    {TtcBytes(U32Of(n), pick) :
        <<n, pick>> \in (0..(MaxFaces + 1)) \X [1..TtcSlots -> BOOLEAN]}
    \cup {TtcBytes(<<1, 0>>, [i \in 1..TtcSlots |-> TRUE])}
    \cup {U32Bytes(TagTtcf), U32Bytes(TagTtcf) \o Zeros(7),
          U32Bytes(TagTtcf) \o U32Bytes(<<1, 0>>) \o U32Bytes(U32Of(1)),
          U32Bytes(TagTtcf) \o U32Bytes(<<1, 0>>) \o U32Bytes(U32Of(1))
          \o U32Bytes(U32Of(500))}

FcInputs == FontInputs \cup TtcInputs

----------------------------------------------------------------------------
(* The cmap of a face: Cmap::load step by step (the header checks, one     *)
(* iteration of the record loop, the return), then the calls on the loaded *)
(* face.                                                                   *)

ViewIdle ==
    /\ tv_data = <<>>
    /\ tv_view = None
    /\ tv_last = [op |-> "none"]

GlyfIdle ==
    /\ face_typ = [typ |-> "none"]
    /\ tt_glyph = None
    /\ gl_pc = "idle"
    /\ render = [state |-> "none"]
    /\ path_iter = None
    /\ path_ops = <<>>
    /\ points_out = <<>>
    /\ gl_last = [op |-> "none"]

FcIdle ==
    /\ fc_data = <<>>
    /\ fc_pc = "idle"
    /\ face_offsets = <<>>
    /\ fc_last = [op |-> "none"]

InitCmap ==
    /\ cmap_data \in CmapInputs
    /\ maxp_data = MaxpTable(NumGlyphsIn)
    /\ pc = "start"
    /\ loop_i = 0
    /\ enc_rec_off = 0
    /\ subtables = <<>>
    /\ active = None
    /\ last = [op |-> "none"]
    /\ FcIdle
    /\ ViewIdle
    /\ GlyfIdle

\* Cmap::load, lines 40-49: the header checks and the locals' first values
LoadBegin ==
    /\ pc = "start"
    /\ LET h == LoadHeader(cmap_data) IN
       IF IsOk(h)
       THEN /\ pc' = "loop"
            /\ enc_rec_off' = 4
            /\ last' = [op |-> "load", result |-> "running"]
       ELSE /\ pc' = "failed"
            /\ enc_rec_off' = enc_rec_off
            /\ last' = [op |-> "load", result |-> h]
    /\ loop_i' = 0
    /\ subtables' = <<>>
    /\ active' = None
    /\ UNCHANGED <<cmap_data, maxp_data, fcVars, viewVars, glyfVars>>

\* Cmap::load, lines 50-71: one iteration of the record loop
LoadStep ==
    /\ pc = "loop"
    /\ loop_i < get_u16_unchecked(cmap_data, 2)
    /\ LET r == LoadRecord(cmap_data, [subtables |-> subtables, active |-> active,
                                        enc_rec_off |-> enc_rec_off]) IN
       IF IsOk(r)
       THEN /\ pc' = "loop"
            /\ loop_i' = loop_i + 1
            /\ enc_rec_off' = r.val.enc_rec_off
            /\ subtables' = r.val.subtables
            /\ active' = r.val.active
            /\ last' = last
       ELSE /\ pc' = "failed"
            /\ loop_i' = loop_i
            /\ enc_rec_off' = enc_rec_off
            /\ subtables' = <<>>
            /\ active' = None
            /\ last' = [op |-> "load", result |-> r]
    /\ UNCHANGED <<cmap_data, maxp_data, fcVars, viewVars, glyfVars>>

\* Cmap::load, lines 72-75: the loop is over, the Cmap is returned
LoadEnd ==
    /\ pc = "loop"
    /\ loop_i = get_u16_unchecked(cmap_data, 2)
    /\ pc' = "loaded"
    /\ last' = [op |-> "load", result |-> Ok("Cmap")]
    /\ UNCHANGED <<cmap_data, maxp_data, loop_i, enc_rec_off, subtables, active, fcVars, viewVars, glyfVars>>

\* Cmap::set_active_subtable with one of the subtables that subtables() yields
SetActiveSubtable ==
    /\ pc = "loaded"
    /\ \E k \in 1..Len(subtables) :
          /\ active' = Some(subtables[k])
          /\ last' = [op |-> "set_active_subtable", index |-> k]
    /\ UNCHANGED <<cmap_data, maxp_data, pc, loop_i, enc_rec_off, subtables, fcVars, viewVars, glyfVars>>

\* Face::get_glyph_id (ScaledFace::get_glyph_id) on the loaded face
GetGlyphId ==
    /\ pc = "loaded"
    /\ \E c \in Codepoints, oc \in BOOLEAN :
          last' = [op |-> "get_glyph_id", codepoint |-> c,
                   result |-> FaceGetGlyphId(cmap_data, active, c, oc)]
    /\ UNCHANGED <<cmap_data, maxp_data, pc, loop_i, enc_rec_off, subtables, active, fcVars, viewVars, glyfVars>>

NextCmap ==
    \/ LoadBegin
    \/ LoadStep
    \/ LoadEnd
    \/ SetActiveSubtable
    \/ GetGlyphId

SpecCmap == InitCmap /\ [][NextCmap]_vars

----------------------------------------------------------------------------
(* A font collection: its construction from a buffer, then the calls on it *)

CmapIdle ==
    /\ cmap_data = <<>>
    /\ maxp_data = <<>>
    /\ pc = "idle"
    /\ loop_i = 0
    /\ enc_rec_off = 0
    /\ subtables = <<>>
    /\ active = None
    /\ last = [op |-> "none"]

InitFc ==
    /\ fc_data \in FcInputs
    /\ fc_pc = "new"
    /\ face_offsets = <<>>
    /\ fc_last = [op |-> "none"]
    /\ CmapIdle
    /\ ViewIdle
    /\ GlyfIdle

\* FontCollection::new_from (FontCollection::new once the file is read)
NewFrom ==
    /\ fc_pc = "new"
    /\ LET r == FromData(fc_data) IN
       IF IsOk(r)
       THEN /\ fc_pc' = "ready"
            /\ face_offsets' = r.val
            /\ fc_last' = [op |-> "from_data", result |-> Ok("FontCollection")]
       ELSE /\ fc_pc' = "failed"
            /\ face_offsets' = <<>>
            /\ fc_last' = [op |-> "from_data", result |-> r]
    /\ UNCHANGED <<fc_data, cmapVars, viewVars, glyfVars>>

\* FontCollection::get_face(idx)
GetFace ==
    /\ fc_pc = "ready"
    /\ \E idx \in 0..(MaxFaces + 1) :
          fc_last' = [op |-> "get_face", idx |-> idx,
                      result |-> FcGetFace(fc_data, face_offsets, idx)]
    /\ UNCHANGED <<fc_data, fc_pc, face_offsets, cmapVars, viewVars, glyfVars>>

\* FontCollection::num_faces()
NumFaces ==
    /\ fc_pc = "ready"
    /\ fc_last' = [op |-> "num_faces", result |-> FcNumFaces(face_offsets)]
    /\ UNCHANGED <<fc_data, fc_pc, face_offsets, cmapVars, viewVars, glyfVars>>

NextFc ==
    \/ NewFrom
    \/ GetFace
    \/ NumFaces

SpecFc == InitFc /\ [][NextFc]_vars

----------------------------------------------------------------------------
(* The loca and hmtx views: a view is loaded over a table, then queried    *)

\* table bytes that differ from offset to offset; every fourth byte (the high
\* byte of a long record's bearing) has its top bit set
TableByte(i) == IF i % 4 = 3 THEN 255 - i ELSE 8 * i + 1
TableInputs == {[i \in 1..n |-> TableByte(i)] : n \in 0..MaxTableLen}
GlyphIds == {U32Of(i) : i \in 0..(MaxGlyphs + 1)} \cup {<<1, 0>>}

InitViews ==
    /\ tv_data \in TableInputs
    /\ tv_view = None
    /\ tv_last = [op |-> "none"]
    /\ CmapIdle
    /\ FcIdle
    /\ GlyfIdle

\* Loca::load(data, num_glyphs, fmt)
LoadLoca ==
    /\ tv_view = None
    /\ \E ng \in 0..MaxGlyphs, fmt \in {"Off16", "Off32"} :
          LET r == LocaLoad(tv_data, ng, fmt) IN
          /\ tv_view' = IF IsOk(r) THEN Some([table |-> "loca", view |-> r.val]) ELSE None
          /\ tv_last' = [op |-> "loca_load", num_glyphs |-> ng, fmt |-> fmt,
                         result |-> IF IsOk(r) THEN Ok("Loca") ELSE r]
    /\ UNCHANGED <<tv_data, cmapVars, fcVars, glyfVars>>

\* Hmtx::load(data, num_glyphs, num_of_h_metrics)
LoadHmtx ==
    /\ tv_view = None
    /\ \E ng \in 0..MaxGlyphs, nhm \in 0..MaxGlyphs :
          LET r == HmtxLoad(tv_data, ng, nhm) IN
          /\ tv_view' = IF IsOk(r) THEN Some([table |-> "hmtx", view |-> r.val]) ELSE None
          /\ tv_last' = [op |-> "hmtx_load", num_glyphs |-> ng, num_of_h_metrics |-> nhm,
                         result |-> IF IsOk(r) THEN Ok("Hmtx") ELSE r]
    /\ UNCHANGED <<tv_data, cmapVars, fcVars, glyfVars>>

\* Loca::get_offset(id)
GetOffset ==
    /\ tv_view.some
    /\ tv_view.val.table = "loca"
    /\ \E id \in GlyphIds :
          tv_last' = [op |-> "get_offset", id |-> id,
                      result |-> LocaGetOffset(tv_view.val.view, tv_data, id)]
    /\ UNCHANGED <<tv_data, tv_view, cmapVars, fcVars, glyfVars>>

\* Hmtx::get_metrics(glyph_id)
GetMetrics ==
    /\ tv_view.some
    /\ tv_view.val.table = "hmtx"
    /\ \E id \in GlyphIds :
          tv_last' = [op |-> "get_metrics", id |-> id,
                      result |-> HmtxGetMetrics(tv_view.val.view, tv_data, id)]
    /\ UNCHANGED <<tv_data, tv_view, cmapVars, fcVars, glyfVars>>

NextViews ==
    \/ LoadLoca
    \/ LoadHmtx
    \/ GetOffset
    \/ GetMetrics

SpecViews == InitViews /\ [][NextViews]_vars

----------------------------------------------------------------------------
(* The glyphs of a face: get_glyph, then the render of the glyph found.    *)
(* The glyf table of a generated face holds a composite glyph at offset 0  *)
(* and the glyph under study after it, so that the study glyph's bytes run *)
(* to the end of the table.                                                *)

I16Bytes(n) == U16Bytes((n + 65536) % 65536)

\* a run of the flag array: its flag bytes, the points it covers, and the
\* bytes these points take in the x and y arrays
\*   0x33 on-curve, x short +, y same     0x36 off-curve, x short +, y short +
\*   0x01 on-curve, x and y 16-bit        0x14 off-curve, x same, y short -
\*   0x3B as 0x33 and 0x3E as 0x36 with a repeat count of 1
RunChoices ==
    {[flags |-> <<51>>, n |-> 1, x |-> <<3>>, y |-> <<>>],
     [flags |-> <<54>>, n |-> 1, x |-> <<2>>, y |-> <<5>>],
     [flags |-> <<1>>, n |-> 1, x |-> <<0, 7>>, y |-> <<255, 254>>],
     [flags |-> <<20>>, n |-> 1, x |-> <<>>, y |-> <<1>>],
     [flags |-> <<59, 1>>, n |-> 2, x |-> <<1, 2>>, y |-> <<>>],
     [flags |-> <<62, 1>>, n |-> 2, x |-> <<1, 1>>, y |-> <<1, 2>>]}

RunSeqs == SeqsUpTo(RunChoices, MaxRuns) \ {<<>>}

RECURSIVE RunPoints(_)
RunPoints(rs) == IF rs = <<>> THEN 0 ELSE Head(rs).n + RunPoints(Tail(rs))

\* a glyph: the 10-byte header, endPtsOfContours, the instructions, the
\* flag, x and y arrays of the runs rs, its last cut bytes missing
GlyphBytes(nc, box, endPts, insn, rs, cut) ==
    CutTail(I16Bytes(nc) \o Concat([i \in 1..4 |-> I16Bytes(box[i])])
            \o Concat([i \in 1..Len(endPts) |-> U16Bytes(endPts[i])])
            \o U16Bytes(Len(insn)) \o insn
            \o Concat([i \in 1..Len(rs) |-> rs[i].flags])
            \o Concat([i \in 1..Len(rs) |-> rs[i].x])
            \o Concat([i \in 1..Len(rs) |-> rs[i].y]),
            cut)

\* the contour layouts tried on n points: <<endPts, insn, cut>>
Layouts(n) ==
    {<<<<n - 1>>, <<>>, cut>> : cut \in {0, 1, 3}}
    \cup {<<<<n - 1, n - 1>>, <<>>, 0>>}
    \cup (IF n >= 2 THEN {<<<<0, n - 1>>, <<>>, 0>>, <<<<n - 2>>, <<>>, 0>>} ELSE {})
    \cup (IF n >= 3 THEN {<<<<1, n - 1>>, <<7>>, 0>>} ELSE {})

DefaultBox == <<-2, -1, 7, 5>>
\* boxes at the ends of the 16-bit range (xmin, ymin, xmax, ymax)
EdgeBoxes ==
    {<<-1, 0, 32767, 4>>, <<-32768, -3, -32760, 0>>,
     <<0, -32768, 3, -32768>>, <<0, -32768, 4, 0>>, <<0, 0, 0, 0>>}

StudyGlyphs ==
    {GlyphBytes(Len(l[1]), DefaultBox, l[1], l[2], rs, l[3]) :
        <<rs, l>> \in {<<r, m>> \in RunSeqs \X UNION {Layouts(k) : k \in 1..(2 * MaxRuns)} :
                           m \in Layouts(RunPoints(r))}}
    \cup {GlyphBytes(1, box, <<1>>, <<>>, <<[flags |-> <<59, 1>>, n |-> 2,
                                            x |-> <<1, 2>>, y |-> <<>>]>>, 0) :
            box \in EdgeBoxes}
    \cup {GlyphBytes(0, DefaultBox, <<>>, <<>>, <<>>, 0),
          GlyphBytes(-1, DefaultBox, <<>>, <<>>, <<>>, 0),
          CutTail(GlyphBytes(1, DefaultBox, <<>>, <<>>, <<>>, 0), 6)}

CompositeGlyph == GlyphBytes(-2, DefaultBox, <<>>, <<>>, <<>>, 2)

\* the outline variants of the faces: CFF, and TrueType faces of two glyphs
\* whose loca (long or short format) places the study glyph at offset 10
FaceTyps ==
    {[typ |-> "CFF"]}
    \cup {[typ |-> "TrueType",
           loca |-> [num_glyphs |-> 2, idx_to_loc_fmt |-> "Off32"],
           loca_data |-> U32Bytes(U32Of(0)) \o U32Bytes(U32Of(10)),
           glyf |-> CompositeGlyph \o g] : g \in StudyGlyphs}
    \cup {[typ |-> "TrueType",
           loca |-> [num_glyphs |-> 2, idx_to_loc_fmt |-> "Off16"],
           loca_data |-> U16Bytes(0) \o U16Bytes(5),
           glyf |-> CompositeGlyph \o GlyphBytes(1, DefaultBox, <<0>>, <<>>,
                                                 <<[flags |-> <<1>>, n |-> 1,
                                                    x |-> <<0, 7>>,
                                                    y |-> <<255, 254>>]>>, cut)] :
            cut \in 0..4}

\* scale_x and scale_y of a render, in quarter units (0.5 and 1.0)
Scales == {<<2, 2>>, <<4, 4>>, <<2, 4>>}

InitGlyf ==
    /\ face_typ \in FaceTyps
    /\ tt_glyph = None
    /\ gl_pc = "idle"
    /\ render = [state |-> "none"]
    /\ path_iter = None
    /\ path_ops = <<>>
    /\ points_out = <<>>
    /\ gl_last = [op |-> "none"]
    /\ CmapIdle
    /\ FcIdle
    /\ ViewIdle

\* Face::get_glyph(id)
GetGlyph(id) ==
    /\ gl_pc = "idle"
    /\ LET r == FaceGetGlyph(face_typ, id) IN
       /\ gl_last' = [op |-> "get_glyph", id |-> id, result |-> r]
       /\ tt_glyph' = IF IsOk(r) THEN Some(r.val) ELSE None
       /\ gl_pc' = IF IsOk(r) THEN "glyph" ELSE "idle"
    /\ UNCHANGED <<face_typ, render, path_iter, path_ops, points_out>>
    /\ UNCHANGED <<cmapVars, fcVars, viewVars>>

\* TTGlyph::render(scale_x, scale_y) on the glyph found, up to the call of
\* rster.draw_path(path_iter); an error or a panic ends the render
RenderBegin(scale_x, scale_y, oc) ==
    /\ gl_pc = "glyph"
    /\ gl_last' = [op |-> "render", scale_x |-> scale_x, scale_y |-> scale_y, oc |-> oc]
    /\ \E s \in {RenderSetup(tt_glyph.val, scale_x, scale_y, oc)} :
          IF IsOk(s)
          THEN /\ gl_pc' = "drawing"
               /\ render' = [state |-> "drawing", width |-> s.val.width,
                             height |-> s.val.height, counts |-> <<>>]
               /\ path_iter' = Some(s.val.path_iter)
          ELSE /\ gl_pc' = "rendered"
               /\ render' = [state |-> "returned", result |-> s]
               /\ path_iter' = None
    /\ path_ops' = <<>>
    /\ points_out' = <<>>
    /\ UNCHANGED <<face_typ, tt_glyph>>
    /\ UNCHANGED <<cmapVars, fcVars, viewVars>>

\* draw_path calls PathIter::next until it returns None, then render returns
\* the bitmap (lines 267-272).  path_ops: the operations handed to the
\* rasterizer; points_out: the pairs Points::next returned; render.counts:
\* the number of pairs each call of PathIter::next pulled.
PathNext ==
    /\ gl_pc = "drawing"
    /\ \E r \in {PathIterNext(path_iter.val, tt_glyph.val.data, gl_last.oc)} :
          IF r.kind = "Panic"
          THEN /\ gl_pc' = "rendered"
               /\ render' = [state |-> "returned", result |-> Panic]
               /\ UNCHANGED <<path_iter, path_ops, points_out>>
          ELSE /\ path_iter' = Some(r.st)
               /\ points_out' = points_out \o r.pulled
               /\ IF r.out.some
                  THEN /\ gl_pc' = "drawing"
                       /\ path_ops' = Append(path_ops, r.out.val)
                       /\ render' = [render EXCEPT !.counts = Append(@, Len(r.pulled))]
                  ELSE /\ gl_pc' = "rendered"
                       /\ path_ops' = path_ops
                       /\ render' = [state |-> "returned",
                                     result |-> Ok([width |-> render.width,
                                                    height |-> render.height]),
                                     counts |-> Append(render.counts, Len(r.pulled))]
    /\ UNCHANGED <<face_typ, tt_glyph, gl_last>>
    /\ UNCHANGED <<cmapVars, fcVars, viewVars>>

NextGlyf ==
    \/ \E id \in 0..2 : GetGlyph(U32Of(id))
    \/ \E sc \in Scales, oc \in BOOLEAN : RenderBegin(sc[1], sc[2], oc)
    \/ PathNext

SpecGlyf == InitGlyf /\ [][NextGlyf]_vars

----------------------------------------------------------------------------
(* The point stream of a glyph on its own: the sizing walk and the         *)
(* construction of Points as render does them, then Points::next until it  *)
(* returns None.                                                           *)

\* TTGlyph::render, lines 228-257: get_ttglyph_offsets and the Points built
\* from its result
PointsBegin(scale_x, scale_y, oc) ==
    /\ gl_pc = "glyph"
    /\ gl_last' = [op |-> "sizing", scale_x |-> scale_x, scale_y |-> scale_y, oc |-> oc]
    /\ \E s \in {RenderSetup(tt_glyph.val, scale_x, scale_y, oc)} :
          IF IsOk(s)
          THEN /\ gl_pc' = "points"
               /\ render' = [state |-> "sized",
                             num_points |-> s.val.path_iter.points.points_remaining,
                             x_off |-> s.val.path_iter.points.x_off,
                             y_off |-> s.val.path_iter.points.y_off]
               /\ path_iter' = Some(s.val.path_iter)
          ELSE /\ gl_pc' = "rendered"
               /\ render' = [state |-> "returned", result |-> s]
               /\ path_iter' = None
    /\ path_ops' = <<>>
    /\ points_out' = <<>>
    /\ UNCHANGED <<face_typ, tt_glyph>>
    /\ UNCHANGED <<cmapVars, fcVars, viewVars>>

\* Points::next; "drained" once it has returned None
PointsStep ==
    /\ gl_pc = "points"
    /\ \E r \in {PointsNext(path_iter.val.points, tt_glyph.val.data)} :
          IF r.kind = "Panic"
          THEN /\ gl_pc' = "rendered"
               /\ render' = [state |-> "returned", result |-> Panic]
               /\ UNCHANGED <<path_iter, points_out>>
          ELSE /\ path_iter' = Some([path_iter.val EXCEPT !.points = r.st])
               /\ points_out' = IF r.out.some THEN Append(points_out, r.out.val)
                                ELSE points_out
               /\ gl_pc' = IF r.out.some THEN "points" ELSE "drained"
               /\ UNCHANGED render
    /\ UNCHANGED <<face_typ, tt_glyph, path_ops, gl_last>>
    /\ UNCHANGED <<cmapVars, fcVars, viewVars>>

NextPoints ==
    \/ \E id \in 0..2 : GetGlyph(U32Of(id))
    \/ \E sc \in Scales, oc \in BOOLEAN : PointsBegin(sc[1], sc[2], oc)
    \/ PointsStep

SpecPoints == InitGlyf /\ [][NextPoints]_vars

----------------------------------------------------------------------------
(* Views of the state that the properties below are stated on.  They read  *)
(* the table bytes at the offsets the OpenType layout gives, with the      *)
(* checked accessors, independently of the lookup code.                    *)

\* a lookup has just returned
Looked == last.op = "get_glyph_id"

ActiveData == SubtableData(cmap_data, active.val)
ActiveFormatIs(f) == active.some /\ get_u16(ActiveData, 0) = Ok(f)

\* record k (from 0) of the cmap directory, as the subtable it describes
DirCount == get_u16_unchecked(cmap_data, 2)
DirRec(k) ==
    Subtable(get_u16(cmap_data, 4 + 8 * k).val, get_u16(cmap_data, 6 + 8 * k).val,
             AsUsize(get_u32(cmap_data, 8 + 8 * k).val))
IsPE(k, p, e) == DirRec(k).platform_id = p /\ DirRec(k).encoding_id = e
\* the indices below n of the (p, e) records
PEBelow(n, p, e) == {k \in 0..(n - 1) : IsPE(k, p, e)}
MinOf(S) == CHOOSE x \in S : \A y \in S : x <= y
MaxOf(S) == CHOOSE x \in S : \A y \in S : x >= y

\* format 12: numGroups, and the groups that lie inside the subtable
NumGroups(d) == get_u32(d, 12)
Fmt12Valid(d) == IsOk(NumGroups(d)) /\ Len(d) >= 16 + 12 * AsUsize(NumGroups(d).val)
GroupIdx(d) ==
    IF Fmt12Valid(d) THEN 0..(AsUsize(NumGroups(d).val) - 1) ELSE {}
GroupStart(d, k) == get_u32(d, 16 + 12 * k).val
GroupEnd(d, k) == get_u32(d, 20 + 12 * k).val
GroupGlyph(d, k) == get_u32(d, 24 + 12 * k).val
U32Le(a, b) == ~U32Lt(b, a)
InGroup(d, k, c) == U32Le(GroupStart(d, k), c) /\ U32Le(c, GroupEnd(d, k))
\* every earlier group ends before c and none starts after c
EarlierGroupsBelow(d, k, c) ==
    \A j \in 0..(k - 1) : U32Le(GroupStart(d, j), c) /\ U32Lt(GroupEnd(d, j), c)
\* c - startCharCode + startGlyphId, and whether it fits 32 bits
GroupSum(d, k, c) == U32AddWrap(U32Sub(c, GroupStart(d, k)), GroupGlyph(d, k))
GroupSumFits(d, k, c) == ~U32AddOverflows(U32Sub(c, GroupStart(d, k)), GroupGlyph(d, k))

\* format 4: segCountX2, and the segments at offsets 0, 2, ... below it
SegCountX2(d) == get_u16(d, 6)
Fmt4Valid(d) == IsOk(SegCountX2(d)) /\ Len(d) >= 16 + 4 * SegCountX2(d).val
SegIdx(d) ==
    IF Fmt4Valid(d) THEN {i \in 0..SegCountX2(d).val : 2 * i < SegCountX2(d).val}
    ELSE {}
SegEnd(d, i) == get_u16(d, 14 + 2 * i)
SegStart(d, i) == get_u16(d, 16 + SegCountX2(d).val + 2 * i)
SegDelta(d, i) == get_u16(d, 16 + 2 * SegCountX2(d).val + 2 * i)
SegRange(d, i) == get_u16(d, 16 + 3 * SegCountX2(d).val + 2 * i)
\* the segments whose endCode is not below c
SegsFrom(d, c) == {i \in SegIdx(d) : c[1] = 0 /\ SegEnd(d, i).val >= c[2]}
\* the first segment in order with endCode >= c holds c
FirstSegHolds(d, c) ==
    /\ SegsFrom(d, c) # {}
    /\ IsOk(SegStart(d, MinOf(SegsFrom(d, c))))
    /\ SegStart(d, MinOf(SegsFrom(d, c))).val <= c[2]

----------------------------------------------------------------------------
(* Properties of the cmap resolver, checked under SpecCmap                 *)

\* C1 as stated: with a format-12 active subtable, for every group and every
\* codepoint c within [startCharCode, endCharCode] of it, the lookup returns
\* GlyphID(c - startCharCode + startGlyphId).  Stated here for subtables that
\* hold all their groups and granting an overflowing sum its panic or wrap, so
\* that it fails on the order of the groups alone.
C1_AsStated ==
    (Looked /\ ActiveFormatIs(12)) =>
        \A k \in GroupIdx(ActiveData) :
            InGroup(ActiveData, k, last.codepoint) =>
                \/ last.result = Ok(GroupSum(ActiveData, k, last.codepoint))
                \/ /\ ~GroupSumFits(ActiveData, k, last.codepoint)
                   /\ last.result = Panic

\* C1 amended: with a format-12 active subtable that holds all its numGroups
\* groups, for every group and every codepoint c within its range such that
\* every earlier group starts at or before c and ends before c (every group of
\* a subtable whose groups are sorted and disjoint), the lookup returns
\* GlyphID(c - startCharCode + startGlyphId) when that sum fits 32 bits; when
\* it does not, the lookup panics (overflow checks on) or returns the sum
\* modulo 2^32.
C1_SortedGroups ==
    (Looked /\ ActiveFormatIs(12)) =>
        \A k \in GroupIdx(ActiveData) :
            (/\ InGroup(ActiveData, k, last.codepoint)
             /\ EarlierGroupsBelow(ActiveData, k, last.codepoint)) =>
                IF GroupSumFits(ActiveData, k, last.codepoint)
                THEN last.result = Ok(GroupSum(ActiveData, k, last.codepoint))
                ELSE \/ last.result = Panic
                     \/ last.result = Ok(GroupSum(ActiveData, k, last.codepoint))

\* a codepoint of the second group, above the first code of that group, was
\* looked up and mapped
C1_Witness ==
    /\ Looked
    /\ ActiveFormatIs(12)
    /\ 1 \in GroupIdx(ActiveData)
    /\ InGroup(ActiveData, 1, last.codepoint)
    /\ EarlierGroupsBelow(ActiveData, 1, last.codepoint)
    /\ U32Lt(GroupStart(ActiveData, 1), last.codepoint)
    /\ GroupSumFits(ActiveData, 1, last.codepoint)
    /\ IsOk(last.result)

\* C2 as stated: a successful get_glyph_id returns an id that is below
\* maxp.num_glyphs or is GlyphID(0), whatever the active subtable holds.
C2_AsStated ==
    (Looked /\ IsOk(last.result)) =>
        \/ U32Lt(last.result.val, U32Of(num_glyphs(maxp_data)))
        \/ last.result.val = U32Of(0)

\* C3: with a format-4 active subtable (one that holds its segment arrays: at
\* least 16 + 4 * segCountX2 bytes), if the first segment in order with
\* endCode >= c has startCode <= c and idRangeOffset == 0, the lookup returns
\* GlyphID((c + idDelta) mod 2^16).
C3_DeltaWraps ==
    (/\ Looked
     /\ ActiveFormatIs(4)
     /\ FirstSegHolds(ActiveData, last.codepoint)
     /\ SegRange(ActiveData, MinOf(SegsFrom(ActiveData, last.codepoint))) = Ok(0)) =>
        last.result =
            Ok(<<0, (last.codepoint[2]
                     + SegDelta(ActiveData,
                                MinOf(SegsFrom(ActiveData, last.codepoint))).val) % 65536>>)

\* such a lookup whose sum c + idDelta reaches 2^16
C3_Witness ==
    /\ Looked
    /\ ActiveFormatIs(4)
    /\ FirstSegHolds(ActiveData, last.codepoint)
    /\ SegRange(ActiveData, MinOf(SegsFrom(ActiveData, last.codepoint))) = Ok(0)
    /\ last.codepoint[2]
       + SegDelta(ActiveData, MinOf(SegsFrom(ActiveData, last.codepoint))).val >= 65536
    /\ MinOf(SegsFrom(ActiveData, last.codepoint)) > 0
    /\ IsOk(last.result)

\* the glyph id array entry for c of segment i: the u16 at byte offset
\* idRangeOffset + (c - startCode) * 2 + (16 + 3 * segCountX2 + offset)
GlyphArrayEntry(d, i, c) ==
    get_u16(d, SegRange(d, i).val + (c[2] - SegStart(d, i).val) * 2
               + (16 + 3 * SegCountX2(d).val + 2 * i))

\* C4 as stated: with a format-4 active subtable, when the matching segment
\* has idRangeOffset != 0 the lookup reads the u16 g of the glyph id array at
\* idRangeOffset + (c - startCode) * 2 + (16 + 3 * segCountX2 + offset); if
\* g == 0 it returns GlyphID(0), otherwise GlyphID((g + idDelta) mod 2^16).
C4_AsStated ==
    (/\ Looked
     /\ ActiveFormatIs(4)
     /\ FirstSegHolds(ActiveData, last.codepoint)
     /\ IsOk(SegRange(ActiveData, MinOf(SegsFrom(ActiveData, last.codepoint))))
     /\ SegRange(ActiveData, MinOf(SegsFrom(ActiveData, last.codepoint))).val # 0
     /\ IsOk(GlyphArrayEntry(ActiveData, MinOf(SegsFrom(ActiveData, last.codepoint)),
                             last.codepoint))) =>
        LET i == MinOf(SegsFrom(ActiveData, last.codepoint))
            g == GlyphArrayEntry(ActiveData, i, last.codepoint).val
        IN  last.result =
                IF g = 0 THEN Ok(U32Of(0))
                ELSE Ok(<<0, (g + SegDelta(ActiveData, i).val) % 65536>>)

\* C5: with a format-4 active subtable (one that holds its segment arrays), a
\* codepoint c that lies in no segment returns GlyphID(0) and not an error,
\* both when the first segment in order with endCode >= c has startCode > c
\* and when no segment has endCode >= c (as for every c > 0xFFFF).
C5_NoSegmentIsZero ==
    (/\ Looked
     /\ ActiveFormatIs(4)
     /\ Fmt4Valid(ActiveData)
     /\ ~FirstSegHolds(ActiveData, last.codepoint)) =>
        last.result = Ok(GlyphID(U32Of(0)))

\* a codepoint below the first segment that ends at or after it, with a later
\* segment that does hold it, was looked up
C5_Witness ==
    /\ Looked
    /\ ActiveFormatIs(4)
    /\ Fmt4Valid(ActiveData)
    /\ ~FirstSegHolds(ActiveData, last.codepoint)
    /\ \E i \in SegsFrom(ActiveData, last.codepoint) :
          /\ i > MinOf(SegsFrom(ActiveData, last.codepoint))
          /\ SegStart(ActiveData, i).val <= last.codepoint[2]
    /\ last.result = Ok(GlyphID(U32Of(0)))

\* Cmap::load has just returned a Cmap
AfterLoad == pc = "loaded" /\ last.op = "load"

\* C6: after Cmap::load succeeds, the active subtable is a (3,10) record if the
\* directory holds one, wherever the (3,1) records stand; otherwise it is the
\* first (3,1) record in record order; otherwise no subtable is active.
C6_Preference ==
    AfterLoad =>
        IF PEBelow(DirCount, 3, 10) # {}
        THEN /\ active.some
             /\ \E k \in PEBelow(DirCount, 3, 10) : active.val = DirRec(k)
        ELSE IF PEBelow(DirCount, 3, 1) # {}
        THEN active = Some(DirRec(MinOf(PEBelow(DirCount, 3, 1))))
        ELSE active = None

\* a directory was loaded that holds a (3,1) record before and another after
\* its (3,10) record
C6_Witness ==
    /\ AfterLoad
    /\ \E k \in PEBelow(DirCount, 3, 10) :
          /\ \E j \in PEBelow(DirCount, 3, 1) : j < k
          /\ \E j \in PEBelow(DirCount, 3, 1) : j > k
          /\ active = Some(DirRec(k))

\* C7 as stated: once a (3,10) record has been seen no later record replaces
\* it, so that the active subtable after load is the first (3,10) record in
\* record order.
C7_AsStated ==
    (AfterLoad /\ PEBelow(DirCount, 3, 10) # {}) =>
        active = Some(DirRec(MinOf(PEBelow(DirCount, 3, 10))))

\* C7 amended: during Cmap::load, once a (3,10) record has been seen only a
\* later (3,10) record replaces it: after each iteration of the record loop,
\* and after load, the active subtable is the last (3,10) record processed so
\* far, whatever records came after it.
C7_LastUcs4Wins ==
    (pc \in {"loop", "loaded"} /\ last.op = "load" /\ PEBelow(loop_i, 3, 10) # {}) =>
        active = Some(DirRec(MaxOf(PEBelow(loop_i, 3, 10))))

\* two (3,10) records and then a (3,1) record have been processed
C7_Witness ==
    /\ pc \in {"loop", "loaded"}
    /\ last.op = "load"
    /\ \E j, k \in PEBelow(loop_i, 3, 10) :
          /\ j < k
          /\ k = MaxOf(PEBelow(loop_i, 3, 10))
          /\ \E m \in PEBelow(loop_i, 3, 1) : m > k
          /\ active = Some(DirRec(k))
          /\ active # Some(DirRec(j))

\* C8: get_glyph_id fails with NoCharmap exactly when the cmap has no active
\* subtable, and an active subtable whose format is neither 4 nor 12 yields
\* GlyphID(0), not an error.
C8_NoCharmap ==
    Looked =>
        /\ (last.result = Err("NoCharmap")) <=> ~active.some
        /\ (/\ active.some
            /\ IsOk(get_u16(ActiveData, 0))
            /\ get_u16(ActiveData, 0).val \notin {4, 12}) =>
               last.result = Ok(GlyphID(U32Of(0)))

\* a codepoint was looked up in an active subtable of format 6
C8_Witness ==
    /\ Looked
    /\ ActiveFormatIs(6)
    /\ last.result = Ok(GlyphID(U32Of(0)))

\* C22: on a format-4 active subtable of any byte content, an odd
\* segCountX2 included, get_glyph_id returns a GlyphID or Invalid for every
\* codepoint: the check of the length against 16 + 4 * segCountX2 keeps
\* every read of the segment loop inside the subtable's slice (no read
\* panics).
C22_AsStated ==
    (Looked /\ ActiveFormatIs(4)) =>
        \/ last.result.kind = "Ok"
        \/ last.result = Err("Invalid")

----------------------------------------------------------------------------
(* Properties of the font collection, checked under SpecFc                 *)

\* C9: get_face(idx) fails with FaceIndexOutOfBounds exactly when
\* idx >= num_faces(); for idx < num_faces() its outcome is the outcome of
\* loading the face at the idx-th stored offset; and no call on a constructed
\* collection changes its bytes or its offsets.
C9_GetFace ==
    /\ [](fc_last.op = "get_face" =>
            /\ (fc_last.result = Err("FaceIndexOutOfBounds"))
                    <=> fc_last.idx >= FcNumFaces(face_offsets)
            /\ fc_last.idx < FcNumFaces(face_offsets) =>
                    fc_last.result = FaceLoad(fc_data, face_offsets[fc_last.idx + 1]))
    /\ [][fc_pc = "ready" => (fc_data' = fc_data /\ face_offsets' = face_offsets)]_vars

\* the last face of a collection of two was loaded; it is not the first face
C9_Witness ==
    /\ fc_last.op = "get_face"
    /\ Len(face_offsets) = 2
    /\ fc_last.idx = 1
    /\ IsOk(fc_last.result)
    /\ fc_last.result # FaceLoad(fc_data, face_offsets[1])

\* C10 as stated: when the first four bytes spell 'ttcf', num_faces() is the
\* u32 at offset 8 and the offset of face i is the u32 at byte offset
\* 12 + 4 * i; otherwise the collection has exactly one face, at offset 0.
C10_AsStated ==
    fc_pc = "ready" =>
        IF get_tag(fc_data, 0) = Ok(TagTtcf)
        THEN /\ FcNumFaces(face_offsets) = AsUsize(get_u32(fc_data, 8).val)
             /\ \A i \in 0..(FcNumFaces(face_offsets) - 1) :
                   /\ IsOk(get_u32(fc_data, 12 + 4 * i))
                   /\ face_offsets[i + 1] = AsUsize(get_u32(fc_data, 12 + 4 * i).val)
        ELSE face_offsets = <<0>>

\* C11 as stated: every collection that construction returns has
\* num_faces() >= 1 and every stored face offset strictly below the buffer
\* length; a buffer that would violate this is rejected at construction.
C11_AsStated ==
    fc_pc = "ready" =>
        /\ FcNumFaces(face_offsets) >= 1
        /\ \A i \in 1..Len(face_offsets) : face_offsets[i] < Len(fc_data)

\* the table records of the face at offset off, read with the checked
\* accessors: their number, and the tag, offset and length of record k
RecCount(d, off) == get_u16(d, off + 4)
RecTag(d, off, k) == get_u32(d, off + 12 + 16 * k)
RecOff(d, off, k) == get_u32(d, off + 12 + 16 * k + 8)
RecLen(d, off, k) == get_u32(d, off + 12 + 16 * k + 12)
RecIdx(d, off) == IF IsOk(RecCount(d, off)) THEN 0..(RecCount(d, off).val - 1) ELSE {}
RecReadable(d, off, k) == IsOk(RecTag(d, off, k)) /\ IsOk(RecLen(d, off, k))
\* record k has offset + length greater than the buffer length
RecOverruns(d, off, k) ==
    /\ RecReadable(d, off, k)
    /\ AsUsize(RecOff(d, off, k).val) + AsUsize(RecLen(d, off, k).val) > Len(d)
\* the records that carry tag t, and the bytes of the table t names (those of
\* its last record)
RecsOf(d, off, t) == {k \in RecIdx(d, off) : RecTag(d, off, k) = Ok(t)}
TableOf(d, off, t) ==
    LET k == MaxOf(RecsOf(d, off, t)) IN
    SubSeq(d, AsUsize(RecOff(d, off, k).val) + 1,
           AsUsize(RecOff(d, off, k).val) + AsUsize(RecLen(d, off, k).val))
\* the directory can be read and all its slices lie inside the buffer
DirSound(d, off) ==
    /\ IsOk(RecCount(d, off))
    /\ \A k \in RecIdx(d, off) : RecReadable(d, off, k) /\ ~RecOverruns(d, off, k)
Absent(d, off, t) == DirSound(d, off) /\ RecsOf(d, off, t) = {}
Present(d, off, t) == DirSound(d, off) /\ RecsOf(d, off, t) # {}
\* table t is there and shorter than n bytes
ShorterThan(d, off, t, n) == Present(d, off, t) /\ Len(TableOf(d, off, t)) < n
\* the minimum length of hmtx, from maxp.numGlyphs and hhea.numberOfHMetrics
HmtxMin(d, off) ==
    2 * get_u16(TableOf(d, off, TagHhea), 34).val
    + 2 * get_u16(TableOf(d, off, TagMaxp), 4).val
RequiredTags == {TagHead, TagHhea, TagMaxp, TagHmtx, TagCmap}
\* a record overruns the buffer, or a required table is absent or too short
FaceDefect(d, off) ==
    \/ \E k \in RecIdx(d, off) : RecOverruns(d, off, k)
    \/ \E t \in RequiredTags : Absent(d, off, t)
    \/ ShorterThan(d, off, TagHead, 54)
    \/ ShorterThan(d, off, TagHhea, 36)
    \/ ShorterThan(d, off, TagMaxp, 6)
    \/ ShorterThan(d, off, TagCmap, 4)
    \/ /\ Present(d, off, TagHmtx) /\ Present(d, off, TagHhea) /\ Present(d, off, TagMaxp)
       /\ ~ShorterThan(d, off, TagHhea, 36) /\ ~ShorterThan(d, off, TagMaxp, 6)
       /\ ShorterThan(d, off, TagHmtx, HmtxMin(d, off))

\* get_face has just loaded (or failed to load) the face at a stored offset
FaceLoaded == fc_last.op = "get_face" /\ fc_last.idx < Len(face_offsets)
LoadedAt == face_offsets[fc_last.idx + 1]

\* C12: loading a face returns Invalid and no Face whenever a table record has
\* offset + length greater than the buffer length, or one of head, hhea, maxp,
\* hmtx, cmap is absent or shorter than its minimum length; and a Face is
\* returned only when its directory is sound: every record's slice lies inside
\* the buffer and the five required tables are there in full.
C12_LoadInvalid ==
    FaceLoaded =>
        /\ FaceDefect(fc_data, LoadedAt) => fc_last.result = Err("Invalid")
        /\ IsOk(fc_last.result) =>
              /\ DirSound(fc_data, LoadedAt)
              /\ ~FaceDefect(fc_data, LoadedAt)
              /\ \A t \in DOMAIN fc_last.result.val.tables :
                    fc_last.result.val.tables[t][1] + fc_last.result.val.tables[t][2]
                        <= Len(fc_data)

\* a face whose only defect is an hmtx table one byte short was refused
C12_Witness ==
    /\ FaceLoaded
    /\ fc_last.result = Err("Invalid")
    /\ get_tag(fc_data, LoadedAt) = Ok(TagTrueType)
    /\ DirSound(fc_data, LoadedAt)
    /\ Present(fc_data, LoadedAt, TagLoca) /\ Present(fc_data, LoadedAt, TagGlyf)
    /\ \A t \in RequiredTags : Present(fc_data, LoadedAt, t)
    /\ ~ShorterThan(fc_data, LoadedAt, TagHead, 54)
    /\ ~ShorterThan(fc_data, LoadedAt, TagHhea, 36)
    /\ ~ShorterThan(fc_data, LoadedAt, TagMaxp, 6)
    /\ ~ShorterThan(fc_data, LoadedAt, TagCmap, 4)
    /\ Len(TableOf(fc_data, LoadedAt, TagHmtx)) + 1 = HmtxMin(fc_data, LoadedAt)

----------------------------------------------------------------------------
(* Properties of the loca and hmtx views, checked under SpecViews          *)

\* the view a query has just been made on
TheView == tv_view.val.view

\* C13: for a loca view over num_glyphs glyphs, get_offset(id) fails with
\* GlyphIDOutOfBounds for every id >= num_glyphs; for id < num_glyphs it
\* returns twice the u16 at byte id * 2 in short format and the u32 at byte
\* id * 4 in long format, a read that lies inside the slice accepted at load.
C13_LocaOffset ==
    tv_last.op = "get_offset" =>
        IF AsUsize(tv_last.id) >= TheView.num_glyphs
        THEN tv_last.result = Err("GlyphIDOutOfBounds")
        ELSE IF TheView.idx_to_loc_fmt = "Off16"
        THEN /\ IsOk(get_u16(tv_data, AsUsize(tv_last.id) * 2))
             /\ tv_last.result = Ok(2 * get_u16(tv_data, AsUsize(tv_last.id) * 2).val)
        ELSE /\ IsOk(get_u32(tv_data, AsUsize(tv_last.id) * 4))
             /\ tv_last.result = Ok(AsUsize(get_u32(tv_data, AsUsize(tv_last.id) * 4).val))

\* the last entry of a short-format table that ends with it was read
C13_Witness ==
    /\ tv_last.op = "get_offset"
    /\ TheView.idx_to_loc_fmt = "Off16"
    /\ AsUsize(tv_last.id) = TheView.num_glyphs - 1
    /\ AsUsize(tv_last.id) > 0
    /\ Len(tv_data) = 2 * TheView.num_glyphs
    /\ IsOk(tv_last.result)
    /\ tv_last.result.val > 0

\* C14 as stated: with n = num_of_h_metrics long records of 4 bytes (u16
\* advance, i16 bearing), get_metrics(id) returns the id-th long record for
\* id < n; for n <= id < num_glyphs the advance of long record n - 1 and the
\* bearing of id in the short array that follows the n long records; and
\* fails with GlyphIDOutOfBounds for id >= num_glyphs.
C14_AsStated ==
    tv_last.op = "get_metrics" =>
        LET id == AsUsize(tv_last.id)
            n == TheView.num_of_h_metrics
        IN  IF id >= TheView.num_glyphs
            THEN tv_last.result = Err("GlyphIDOutOfBounds")
            ELSE IF id < n
            THEN /\ IsOk(get_i16(tv_data, 4 * id + 2))
                 /\ tv_last.result = Ok(<<get_u16(tv_data, 4 * id).val,
                                          get_i16(tv_data, 4 * id + 2).val>>)
            ELSE /\ IsOk(get_i16(tv_data, 4 * n + 2 * (id - n)))
                 /\ tv_last.result = Ok(<<get_u16(tv_data, 4 * (n - 1)).val,
                                          get_i16(tv_data, 4 * n + 2 * (id - n)).val>>)


----------------------------------------------------------------------------
(* Properties of the glyph decoder, checked under SpecGlyf                 *)

\* the offset the loca table gives glyph id, read with the checked accessors
GlyphOffsetOf(id) ==
    IF face_typ.loca.idx_to_loc_fmt = "Off16"
    THEN get_u16(face_typ.loca_data, AsUsize(id) * 2).val * 2
    ELSE AsUsize(get_u32(face_typ.loca_data, AsUsize(id) * 4).val)

\* the last call was get_glyph(id) on a TrueType face, for an id of the face
GotTrueType ==
    /\ gl_last.op = "get_glyph"
    /\ face_typ.typ = "TrueType"
    /\ AsUsize(gl_last.id) < face_typ.loca.num_glyphs

Rendered == gl_pc = "rendered" /\ render.state = "returned"

\* C15: unsupported outlines are errors, never a bitmap.  On a CFF face
\* every get_glyph fails Unimplemented; on a TrueType face a glyph whose
\* num_contours is negative is Composite and its render fails
\* Unimplemented; a glyph with fewer than 10 bytes at its offset fails
\* Invalid.
C15_Unsupported ==
    /\ (gl_last.op = "get_glyph" /\ face_typ.typ = "CFF")
          => gl_last.result = Err("Unimplemented")
    /\ (GotTrueType /\ Len(face_typ.glyf) - GlyphOffsetOf(gl_last.id) < 10)
          => gl_last.result = Err("Invalid")
    /\ (GotTrueType /\ Len(face_typ.glyf) - GlyphOffsetOf(gl_last.id) >= 10
        /\ get_i16(face_typ.glyf, GlyphOffsetOf(gl_last.id)).val < 0)
          => (IsOk(gl_last.result) /\ gl_last.result.val.kind = "Composite")
    /\ (tt_glyph.some /\ tt_glyph.val.kind = "Composite")
          => /\ gl_pc # "drawing"
             /\ Rendered => render.result = Err("Unimplemented")

\* a composite glyph found at its offset was rendered
C15_Witness ==
    /\ Rendered
    /\ tt_glyph.some
    /\ tt_glyph.val.kind = "Composite"
    /\ get_i16(face_typ.glyf, 10).val < 0
    /\ tt_glyph.val.data = SliceFrom(face_typ.glyf, 10)
    /\ render.result = Err("Unimplemented")

\* the ceiling of a value given in quarter units
CeilQuarter(q) == -((-q) \div 4)

\* the render of a simple glyph got past its set-up and has not panicked
SimpleDrawn ==
    /\ tt_glyph.some
    /\ tt_glyph.val.kind = "Simple"
    /\ \/ gl_pc = "drawing"
       \/ Rendered /\ IsOk(render.result)

BitmapWidth == IF gl_pc = "drawing" THEN render.width ELSE render.result.val.width
BitmapHeight == IF gl_pc = "drawing" THEN render.height ELSE render.result.val.height

\* C16: for every simple glyph and every 16-bit bounding box, a successful
\* render has width ceil((xmax - xmin) * sx) + 2 and height
\* ceil((ymax - ymin) * sy) + 2, and the differences and the negations
\* -xmin, -ymax that place the outline are the exact ones (no 16-bit
\* overflow).
C16_AsStated ==
    SimpleDrawn =>
        LET g == tt_glyph.val
            a == path_iter.val.points.affine
        IN  /\ BitmapWidth = CeilQuarter((g.xmax - g.xmin) * gl_last.scale_x) + 2
            /\ BitmapHeight = CeilQuarter((g.ymax - g.ymin) * gl_last.scale_y) + 2
            /\ a.c0 = (-g.xmin) * gl_last.scale_x
            /\ a.c1 = (-g.ymax) * (-gl_last.scale_y)

\* the render of a simple glyph returned a bitmap
SimpleRendered ==
    /\ Rendered
    /\ IsOk(render.result)
    /\ tt_glyph.val.kind = "Simple"

RECURSIVE SumTo(_, _)
SumTo(s, k) == IF k = 0 THEN 0 ELSE s[k] + SumTo(s, k - 1)

\* the operations of the path that start a contour, and for the contour
\* started by operation i: its last operation, and the last point the
\* stream delivered while its operations were produced
Moves == {i \in 1..Len(path_ops) : path_ops[i].op = "Move"}
ContourEnd(i) ==
    CHOOSE j \in i..Len(path_ops) :
        /\ \A k \in (i + 1)..j : path_ops[k].op # "Move"
        /\ j = Len(path_ops) \/ path_ops[j + 1].op = "Move"
ContourLastPoint(i) == points_out[SumTo(render.counts, ContourEnd(i))]

\* C17: a contour whose first point p is on-curve is emitted as Move(p),
\* its segments, and exactly one closing operation ending at p:
\* QuadBez(last_off, p) when an off-curve control is pending after the
\* contour's last point, otherwise Line(p); the next Move comes only after
\* it.
C17_AsStated ==
    SimpleRendered =>
        \A i \in Moves :
            LET p == path_ops[i].p
                j == ContourEnd(i)
                lastpt == ContourLastPoint(i)
            IN  /\ j > i
                /\ path_ops[j] = IF lastpt[1] THEN Line(p) ELSE QuadBez(lastpt[2], p)
                /\ \A k \in (i + 1)..(j - 1) : path_ops[k].p # p

\* endPtsOfContours[c] of the glyph (c from 1), and endPts[-1] = -1
EndPt(c) == IF c = 0 THEN -1 ELSE get_u16(tt_glyph.val.data, 2 * (c - 1)).val
Contours == 1..tt_glyph.val.num_contours

\* the contour that point k of the stream (k from 1) belongs to
InContour(k, c) == EndPt(c - 1) < k - 1 /\ k - 1 <= EndPt(c)
SameContour(k, l) == \E c \in Contours : InContour(k, c) /\ InContour(l, c)
FirstOfContour(k) == \E c \in Contours : InContour(k, c) /\ k - 1 = EndPt(c - 1) + 1

Midpoint(a, b) == <<(a[1] + b[1]) \div 2, (a[2] + b[2]) \div 2>>

\* C18: two consecutive off-curve points a, b of a contour give
\* QuadBez(a, midpoint(a, b)) and b is the control of the next operation;
\* every off-curve point is the control of exactly one QuadBez and every
\* on-curve point after the first of its contour is the end point of
\* exactly one Line or QuadBez.
C18_AsStated ==
    SimpleRendered =>
        /\ \A k \in 1..(Len(points_out) - 1) :
              (~points_out[k][1] /\ ~points_out[k + 1][1] /\ SameContour(k, k + 1))
                 => \E m \in 1..(Len(path_ops) - 1) :
                       /\ path_ops[m] = QuadBez(points_out[k][2],
                                                Midpoint(points_out[k][2],
                                                         points_out[k + 1][2]))
                       /\ path_ops[m + 1].op = "QuadBez"
                       /\ path_ops[m + 1].c = points_out[k + 1][2]
        /\ \A k \in 1..Len(points_out) :
              IF ~points_out[k][1]
              THEN Cardinality({m \in 1..Len(path_ops) :
                                   /\ path_ops[m].op = "QuadBez"
                                   /\ path_ops[m].c = points_out[k][2]}) = 1
              ELSE FirstOfContour(k)
                   \/ Cardinality({m \in 1..Len(path_ops) :
                                      /\ path_ops[m].op \in {"Line", "QuadBez"}
                                      /\ path_ops[m].p = points_out[k][2]}) = 1

\* The layout of a simple glyph's body (OpenType glyf table): num_points is
\* the last endPt + 1; the flag array follows the instructions; a flag byte
\* with bit 3 set is followed by the count of its further repetitions.
BodyNumPoints == EndPt(tt_glyph.val.num_contours) + 1
BodyFlagsOff ==
    2 * tt_glyph.val.num_contours + 2
    + get_u16(tt_glyph.val.data, 2 * tt_glyph.val.num_contours).val

\* the flags of the first n points read from offset off, one per point, as
\* far as the bytes reach
RECURSIVE ExpandFlags(_, _, _)
ExpandFlags(data, off, n) ==
    IF n <= 0 \/ off + 1 > Len(data) THEN <<>>
    ELSE LET flag == data[off + 1] IN
         IF flag \div 8 % 2 = 1
         THEN IF off + 2 > Len(data) THEN <<>>
              ELSE [i \in 1..(data[off + 2] + 1) |-> flag]
                   \o ExpandFlags(data, off + 2, n - (data[off + 2] + 1))
         ELSE <<flag>> \o ExpandFlags(data, off + 1, n - 1)

BodyFlags == ExpandFlags(tt_glyph.val.data, BodyFlagsOff, BodyNumPoints)

\* endPtsOfContours increases strictly and the flags give every point of the
\* glyph, the first point of each contour being on-curve
Increasing == \A c \in Contours : EndPt(c) > EndPt(c - 1)
ContoursStartOn ==
    /\ Len(BodyFlags) = BodyNumPoints
    /\ \A c \in Contours : BodyFlags[EndPt(c - 1) + 2] % 2 = 1

\* the operation that starts the i-th contour of the path
MoveOf(i) == CHOOSE m \in Moves : Cardinality({x \in Moves : x <= m}) = i

\* C19: with strictly increasing endPtsOfContours and contours that all
\* start on-curve, contour i of the path consumes exactly
\* endPts[i] - endPts[i-1] points of the stream (endPts[-1] = -1), and all
\* contours together num_points = last endPt + 1.
C19_AsStated ==
    (SimpleRendered /\ Increasing /\ ContoursStartOn) =>
        /\ Cardinality(Moves) = tt_glyph.val.num_contours
        /\ \A i \in Contours :
              SumTo(render.counts, ContourEnd(MoveOf(i)))
              - SumTo(render.counts, MoveOf(i) - 1) = EndPt(i) - EndPt(i - 1)
        /\ Len(points_out) = BodyNumPoints

\* contour c of the glyph has a point, and the flags make its first point
\* off-curve
StartsOff(c) ==
    /\ c \in Contours
    /\ EndPt(c) > EndPt(c - 1)
    /\ EndPt(c - 1) + 2 <= Len(BodyFlags)
    /\ BodyFlags[EndPt(c - 1) + 2] % 2 = 0

\* the path is about to start contour c: the contours before it are
\* emitted and closed, and the stream has delivered exactly their points
AtStartOf(c) ==
    /\ gl_pc = "drawing"
    /\ ~path_iter.val.contour_start.some
    /\ Cardinality(Moves) = c - 1
    /\ Len(points_out) = EndPt(c - 1) + 1

BoxFits ==
    LET g == tt_glyph.val IN
    /\ g.xmax - g.xmin <= 32767
    /\ g.ymax - g.ymin <= 32767
    /\ g.xmin > -32768
    /\ g.ymax > -32768

\* a usize that holds the wrapped value of a negative count
Underflowed(n) == n >= Huge \div 2

\* C23: while a simple glyph body is rendered no unsigned count goes below
\* zero: num_contours - 1, a contour's size - 1 and points_remaining -
\* repeat_count stay >= 0 or the render returns an error (the render never
\* panics on them and never goes on with a wrapped count).
C23_AsStated ==
    (tt_glyph.some /\ tt_glyph.val.kind = "Simple" /\ BoxFits) =>
        /\ Rendered => render.result.kind \in {"Ok", "Err"}
        /\ (gl_pc \in {"drawing", "rendered"} /\ path_iter.some)
              => /\ ~Underflowed(path_iter.val.cur_contour_size)
                 /\ ~Underflowed(path_iter.val.points.points_remaining)

----------------------------------------------------------------------------
(* Properties of the point stream, checked under SpecPoints                *)

\* the bytes a point takes in the x array, from its flag
XBytes(flag) ==
    IF flag \div 2 % 2 = 1 THEN 1
    ELSE IF flag \div 16 % 2 = 1 THEN 0
    ELSE 2

\* the bytes of the flag array that give the first n points from offset off
RECURSIVE FlagBytes(_, _, _)
FlagBytes(data, off, n) ==
    IF n <= 0 \/ off + 1 > Len(data) THEN 0
    ELSE IF data[off + 1] \div 8 % 2 = 1
    THEN IF off + 2 > Len(data) THEN 1
         ELSE 2 + FlagBytes(data, off + 2, n - (data[off + 2] + 1))
    ELSE 1 + FlagBytes(data, off + 1, n - 1)

RECURSIVE SumXBytes(_, _)
SumXBytes(flags, k) == IF k = 0 THEN 0 ELSE XBytes(flags[k]) + SumXBytes(flags, k - 1)

\* sizing succeeded and the stream has returned None
Drained == gl_pc = "drained" /\ render.state = "sized"

\* C20: on every body for which sizing succeeds, the sizing walk and the
\* point stream agree: a flag byte covers itself and its repeat count, the
\* stream emits exactly num_points pairs, and after the last one its flag
\* cursor is at the computed start of the x array and its x cursor at the
\* computed start of the y array (x bytes per point as the flags say).
C20_AsStated ==
    Drained =>
        LET pts == path_iter.val.points IN
        /\ render.num_points = BodyNumPoints
        /\ render.x_off = BodyFlagsOff
                          + FlagBytes(tt_glyph.val.data, BodyFlagsOff, BodyNumPoints)
        /\ render.y_off = render.x_off + SumXBytes(BodyFlags, BodyNumPoints)
        /\ Len(points_out) = render.num_points
        /\ \A k \in 1..Len(points_out) : points_out[k][1] = (BodyFlags[k] % 2 = 1)
        /\ pts.flag_off = render.x_off
        /\ pts.x_off = render.y_off

========================================================================
